---- MODULE Spec2Model ----
(***************************************************************************)
(* Connection resolution and pluggable data-quality test execution of the  *)
(* datahub-actions plugins (data_quality, ai_assistant, assertion_executor)*)
(*                                                                         *)
(* The module holds several specifications over one set of variables:      *)
(*   SpecGate   the SQL read-only gate and the four SQL execution paths    *)
(*   SpecParse  SQLExecutor._parse_query_result as a pure function         *)
(*   SpecConn   ConnectorRegistry: connection strings and source selection *)
(*   SpecExec   TestExecutor.execute_tests_for_dataset and the validators  *)
(* Each specification moves its own variables and leaves the others idle.  *)
(***************************************************************************)
EXTENDS Integers, Sequences, FiniteSets, TLC

VARIABLES
    sql,          \* gate: the statement handed to an execution path (chars)
    gatePath,     \* gate: the execution path that ran last ("idle" before)
    gateReached,  \* gate: the last call passed sql to a cursor/connection
    gateRet,      \* gate: what the last call returned
    result,       \* parse: the raw query result given to the parser
    row_limit,    \* parse: the row_limit argument
    parsed,       \* parse: <<the (passed, metrics) pair returned>>, <<>> before the call
    sel_platform, \* select: the platform argument of _select_best_source
    dataset_urn,  \* select: the dataset URN the key is parsed from
    candidates,   \* select: the candidate sources, in catalog order
    selRet,       \* select: <<what the last call returned>>, <<>> before
    connector_configs,       \* registry: platform -> explicit connector config
    graph,                   \* registry: the DataHub client ("none": no client)
    catalog,                 \* registry: the ingestion sources DataHub holds
    environ,                 \* registry: the process environment
    ingestion_source_cache,  \* registry: <<platform -> sources map>>, <<>> for None
    engines,                 \* registry: platform -> cached engine
    connRet,                 \* registry: <<what the last call returned>>, <<>> before
    val_type,     \* validator: the test type looked up in TEST_REGISTRY
    val_column,   \* validator: the column argument ("" for None)
    val_params,   \* validator: the params argument
    val_profile,  \* validator: the profile handed to execute
    val_conn,     \* validator: the registry set on it, and what it resolves
    val_stage,    \* validator: "new", "constructed", "raised", "executed"
    valRet,       \* validator: <<the TestResult or the exception>>, <<>> before
    test_configs,     \* executor: the configured tests, in configuration order
    target_urn,       \* executor: the dataset being evaluated
    profile_source,   \* executor: what DataHub answers to the profile request
    has_registry,     \* executor: a connector registry was handed over
    pc,               \* executor: "idle", "loop", "done" or "raised"
    matching_tests,   \* executor: the places in test_configs of the matching tests
    profile,          \* executor: the profile retrieved (<<>> for None)
    idx,              \* executor: the place in matching_tests of the next test
    mcps,             \* executor: the records collected so far
    log,              \* executor: what was logged for each test run, in order
    profile_fetches,  \* executor: the number of profile requests sent to DataHub
    act_enabled,      \* action: config.enabled
    act_event,        \* action: the event handed to act
    act_executor,     \* action: what execute_tests_for_dataset does for the dataset
    act_pc,           \* action: "idle", "emit", "done" or "raised"
    assertion_mcps,   \* action: the records the executor returned
    act_idx,          \* action: the place in assertion_mcps of the next record
    emitted,          \* action: the calls of graph.emit so far, in order
    act_errors,       \* action: the errors logged so far, in order
    sf_connections,   \* registry: platform -> cached native connection
    made,             \* registry: the number of engines create_engine has built
    disposed,         \* registry: engine -> the number of dispose calls on it
    queries,          \* registry: the number of catalog queries so far and the
                      \*   outcome of the last one
    call_path,        \* sql run: the operation that runs the statement
    call_sql,         \* sql run: the statement
    call_native,      \* sql run: what get_native_connection does
    call_engine,      \* sql run: what get_engine / get_connection_string gives
    call_db,          \* sql run: what the database does with the statement
    call_limit,       \* sql run: row_limit
    call_timeout,     \* sql run: timeout_sec
    call_pc,          \* sql run: "idle", "running", "done"
    elapsed,          \* sql run: the seconds the statement has been running
    open_native,      \* sql run: native connections acquired and not closed
    fetched_rows,     \* sql run: the rows brought into memory
    callRet,          \* sql run: <<what the operation returned>>, <<>> before
    race_pc,          \* threads: thread -> where it stands in its operation
    race_entries,     \* threads: the entries of _engines for the one platform
    race_made,        \* threads: the number of engines created so far
    race_disposed,    \* threads: the engines disposed
    race_sources,     \* threads: _ingestion_source_cache, "none" or "list"
    race_queries,     \* threads: the number of catalog queries sent
    race_ops,         \* threads: the operations that have been started
    race_raised       \* threads: the exceptions operations have raised

gateVars  == <<sql, gatePath, gateReached, gateRet>>
parseVars == <<result, row_limit, parsed>>
selVars   == <<sel_platform, dataset_urn, candidates, selRet>>
valVars   == <<val_type, val_column, val_params, val_profile, val_conn,
               val_stage, valRet>>
execVars  == <<test_configs, target_urn, profile_source, has_registry, pc,
               matching_tests, profile, idx, mcps, log, profile_fetches>>
connVars  == <<connector_configs, graph, catalog, environ,
               ingestion_source_cache, engines, connRet>>
actVars   == <<act_enabled, act_event, act_executor, act_pc, assertion_mcps,
               act_idx, emitted, act_errors>>
lifeVars  == <<sf_connections, made, disposed, queries>>
callVars  == <<call_path, call_sql, call_native, call_engine, call_db, call_limit,
               call_timeout, call_pc, elapsed, open_native, fetched_rows, callRet>>
raceVars  == <<race_pc, race_entries, race_made, race_disposed, race_sources,
               race_queries, race_ops, race_raised>>

None == "None"

(***************************************************************************)
(* Strings are sequences of one-character strings, so that upper(),        *)
(* strip(), startswith() and the substring test `in` are computed.         *)
(***************************************************************************)
LowerChars == <<"a","b","c","d","e","f","g","h","i","j","k","l","m",
                "n","o","p","q","r","s","t","u","v","w","x","y","z">>
UpperChars == <<"A","B","C","D","E","F","G","H","I","J","K","L","M",
                "N","O","P","Q","R","S","T","U","V","W","X","Y","Z">>
Whitespace == {" ", "\t", "\n"}

\* str.upper() on one character
UpperChar(c) ==
    IF \E i \in DOMAIN LowerChars : LowerChars[i] = c
    THEN UpperChars[CHOOSE i \in DOMAIN LowerChars : LowerChars[i] = c]
    ELSE c

\* str.upper()
Upper(s) == [i \in 1..Len(s) |-> UpperChar(s[i])]

\* str.strip(): drop leading and trailing whitespace
RECURSIVE LStrip(_)
LStrip(s) == IF s # <<>> /\ Head(s) \in Whitespace THEN LStrip(Tail(s)) ELSE s

RECURSIVE RStrip(_)
RStrip(s) ==
    IF s # <<>> /\ s[Len(s)] \in Whitespace
    THEN RStrip(SubSeq(s, 1, Len(s) - 1))
    ELSE s

Strip(s) == RStrip(LStrip(s))

\* str.startswith(p)
StartsWith(s, p) == Len(s) >= Len(p) /\ SubSeq(s, 1, Len(p)) = p

\* the substring test `p in s`
Contains(s, p) ==
    \E i \in 1..(Len(s) - Len(p) + 1) : SubSeq(s, i, i + Len(p) - 1) = p

KwSelect == <<"S","E","L","E","C","T">>
KwWith   == <<"W","I","T","H">>

\* executor.py: the `forbidden` list of _is_readonly_sql
forbidden ==
    << <<"I","N","S","E","R","T">>,
       <<"U","P","D","A","T","E">>,
       <<"D","E","L","E","T","E">>,
       <<"D","R","O","P">>,
       <<"C","R","E","A","T","E">>,
       <<"A","L","T","E","R">>,
       <<"T","R","U","N","C","A","T","E">>,
       <<"M","E","R","G","E">>,
       <<"G","R","A","N","T">>,
       <<"R","E","V","O","K","E">> >>

\* mutant: the gate forgets str.strip()
IsReadonlySqlNoStrip(s) ==
    LET sql_upper == Upper(s) IN
    IF \E k \in DOMAIN forbidden : Contains(sql_upper, forbidden[k])
    THEN FALSE
    ELSE IF ~(StartsWith(sql_upper, KwSelect) \/ StartsWith(sql_upper, KwWith))
    THEN FALSE
    ELSE TRUE

\* SQLExecutor._is_readonly_sql
IsReadonlySql(s) ==
    LET sql_upper == Strip(Upper(s)) IN
    IF \E k \in DOMAIN forbidden : Contains(sql_upper, forbidden[k])
    THEN FALSE
    ELSE IF ~(StartsWith(sql_upper, KwSelect) \/ StartsWith(sql_upper, KwWith))
    THEN FALSE
    ELSE TRUE

(***************************************************************************)
(* Statements: a leading fragment followed by at most MaxTails trailing    *)
(* fragments.                                                              *)
(***************************************************************************)
MaxTails == 1

Heads ==
    { <<>>,
      <<" ","\t","S","e","l","e","c","t">>,      \* leading whitespace
      <<"S","E","L","E","C","T">>,  \* SELECT
      <<"S","E","L","E","C","T"," ","*"," ","F","R","O","M"," ","t">>,  \* SELECT * FROM t
      <<"s","e","l","e","c","t">>,  \* select
      <<"W","I","T","H"," ","x"," ","A","S">>,  \* WITH x AS
      <<"D","R","O","P"," ","T","A","B","L","E"," ","t">>,  \* DROP TABLE t
      <<"U","P","D","A","T","E"," ","t"," ","S","E","T"," ","x","=","1">>,  \* UPDATE t SET x=1
      <<"1"," ","S","E","L","E","C","T">> }  \* 1 SELECT

Tails ==
    { <<" ","\n">>,                               \* trailing whitespace
      <<" ","1">>,  \*  1
      <<" ","*"," ","f","r","o","m"," ","t">>,  \*  * from t
      <<" ","*"," ","F","R","O","M"," ","t">>,  \*  * FROM t
      <<";"," ","D","E","L","E","T","E"," ","F","R","O","M"," ","t">>,  \* ; DELETE FROM t
      <<" ","c","r","e","a","t","e","d","_","a","t">>,  \*  created_at
      <<" ","(","i","n","s","e","r","t">>,  \*  (insert
      <<" ","A","l","t","e","r">>,  \*  Alter
      <<" ","t","r","u","n","c","a","t","e">>,  \*  truncate
      <<" ","M","E","R","G","E">>,  \*  MERGE
      <<" ","g","r","a","n","t">>,  \*  grant
      <<" ","R","e","v","o","k","e">> }  \*  Revoke

RECURSIVE Concat(_)
Concat(fs) == IF fs = <<>> THEN <<>> ELSE Head(fs) \o Concat(Tail(fs))

Statements ==
    { h \o Concat(ts) : h \in Heads, ts \in UNION { [1..n -> Tails] : n \in 0..MaxTails } }

(***************************************************************************)
(* Query results.  A cell value carries its Python type.                   *)
(***************************************************************************)
IntV(n)   == [k |-> "int",   v |-> n]
FloatV(n) == [k |-> "float", v |-> n]     \* the float n.0
BoolV(b)  == [k |-> "bool",  v |-> IF b THEN 1 ELSE 0]
StrV      == [k |-> "str",   v |-> 1]     \* a non-empty string
NullV     == [k |-> "none",  v |-> 0]     \* SQL NULL, Python None

SqlValues  == {IntV(0), IntV(1), FloatV(0), FloatV(1), BoolV(TRUE), BoolV(FALSE),
               StrV, NullV}
CellValues == {IntV(0), IntV(1), StrV}

\* Python truthiness bool(value) of a number or a bool
Truthy(val) == val.v # 0

MaxRows     == 2
MaxCols     == 2
MaxRowLimit == 2

\* a database result: rows of one width (a list of dicts or tuples)
Tables ==
    UNION { [1..nr -> [1..nc -> CellValues]] : nr \in 0..MaxRows, nc \in 0..MaxCols }

ListResult(rows) == [t |-> "list", rows |-> rows]

\* what _parse_query_result can be handed
Results ==
    { ListResult(rows) : rows \in Tables }
      \cup { ListResult(<< <<val>> >>) : val \in SqlValues }
      \cup { [t |-> "none"] }
      \cup { [t |-> "scalar", v |-> val] : val \in {IntV(0), IntV(1), FloatV(0), BoolV(TRUE)} }
      \cup { [t |-> "unknown"] }                    \* a str, a dict, any other object
      \cup { [t |-> "unsized", n |-> n] : n \in 1..MaxRows }  \* a list of n objects without len()

Min(a, b) == IF a <= b THEN a ELSE b

\* the metrics dict: the keys it holds and their values (a key that is not
\* held keeps the default value of its type)
NoMetrics      == [keys |-> {}, row_count |-> 0, result_value |-> NullV]
RowCount(m, n) == [m EXCEPT !.keys = @ \cup {"row_count"}, !.row_count = n]
ResultValue(m, val) ==
    [m EXCEPT !.keys = @ \cup {"result_value"}, !.result_value = val]
RawResult(m)   == [m EXCEPT !.keys = @ \cup {"raw_result"}]
ErrorOnly      == [NoMetrics EXCEPT !.keys = {"error"}]

Parsed(p, m) == [passed |-> p, metrics |-> m, raised |-> FALSE]

\* mutant: the multi-row branch reports success whenever rows came back
ParseQueryResultRowsPass(res, limit) ==
    IF res.t = "none" THEN Parsed(TRUE, RowCount(NoMetrics, 0))
    ELSE IF res.t = "list" THEN
        LET row_count == Len(res.rows) IN
        IF row_count = 1 /\ Len(res.rows[1]) = 1
        THEN LET value == res.rows[1][1] IN
             Parsed(IF value.k \in {"int", "bool"} THEN Truthy(value) ELSE TRUE,
                    ResultValue(RowCount(NoMetrics, Min(row_count, limit)), value))
        ELSE Parsed(row_count > 0, RowCount(NoMetrics, Min(row_count, limit)))
    ELSE IF res.t = "unsized" THEN
        IF res.n = 1
        THEN Parsed(FALSE, ErrorOnly)
        ELSE Parsed(FALSE, RowCount(NoMetrics, Min(res.n, limit)))
    ELSE IF res.t = "scalar" THEN Parsed(Truthy(res.v), ResultValue(NoMetrics, res.v))
    ELSE Parsed(TRUE, RawResult(NoMetrics))

\* SQLExecutor._parse_query_result
ParseQueryResult(res, limit) ==
    IF res.t = "none" THEN Parsed(TRUE, RowCount(NoMetrics, 0))
    ELSE IF res.t = "list" THEN
        LET row_count == Len(res.rows) IN
        IF row_count = 1 /\ Len(res.rows[1]) = 1
        THEN LET value == res.rows[1][1] IN
             \* isinstance(value, (int, bool)): a float is neither
             Parsed(IF value.k \in {"int", "bool"} THEN Truthy(value) ELSE TRUE,
                    ResultValue(RowCount(NoMetrics, Min(row_count, limit)), value))
        ELSE Parsed(row_count = 0, RowCount(NoMetrics, Min(row_count, limit)))
    ELSE IF res.t = "unsized" THEN
        \* len(result[0]) is evaluated only when row_count == 1; it raises
        \* TypeError, which the except clause turns into (False, {"error"})
        IF res.n = 1
        THEN Parsed(FALSE, ErrorOnly)
        ELSE Parsed(FALSE, RowCount(NoMetrics, Min(res.n, limit)))
    ELSE IF res.t = "scalar" THEN Parsed(Truthy(res.v), ResultValue(NoMetrics, res.v))
    ELSE Parsed(TRUE, RawResult(NoMetrics))

(***************************************************************************)
(* The SQL execution paths.  Each returns what the caller gets back plus   *)
(* `reached`: the statement was passed to cursor.execute /                 *)
(* connection.execute.                                                     *)
(***************************************************************************)
DefaultRowLimit == 1000

\* dict(zip(columns, row)): a later value of a repeated column name replaces
\* the earlier one in place; the values are returned in the dict's key order
RECURSIVE DictZip(_, _, _)
DictZip(columns, row, acc) ==
    IF columns = <<>> \/ row = <<>> THEN [i \in 1..Len(acc) |-> acc[i][2]]
    ELSE LET key == Head(columns)
             val == Head(row)
             upd == IF \E i \in 1..Len(acc) : acc[i][1] = key
                    THEN [i \in 1..Len(acc) |->
                             IF acc[i][1] = key THEN <<key, val>> ELSE acc[i]]
                    ELSE Append(acc, <<key, val>>)
         IN DictZip(Tail(columns), Tail(row), upd)

\* [dict(zip(columns, row)) for row in rows[:row_limit]] if rows else []
ResultList(columns, rows, limit) ==
    LET kept == SubSeq(rows, 1, Min(Len(rows), limit)) IN
    [i \in 1..Len(kept) |-> DictZip(columns, kept[i], <<>>)]

\* what the database does with an executed statement
DbOutcomes(tables) ==
    { [raises |-> TRUE, columns |-> <<>>, rows |-> <<>>] }
      \cup { [raises |-> FALSE, columns |-> <<"a", "b">>, rows |-> rows] : rows \in tables }

GateTables == { <<>>, << <<IntV(1)>> >>, << <<IntV(1)>>, <<IntV(0)>> >> }

Columns(db) ==
    IF db.rows = <<>> THEN <<>> ELSE SubSeq(db.columns, 1, Len(db.rows[1]))

Ret(reached, passed, metrics, error) ==
    [reached |-> reached, passed |-> passed, metrics |-> metrics, error |-> error]

\* the query ran: fetchall, build the result list, parse it
Fetched(db, limit) ==
    IF db.raises
    THEN Ret(TRUE, FALSE, NoMetrics, "str(e)")
    ELSE LET p == ParseQueryResult(ListResult(ResultList(Columns(db), db.rows, limit)), limit)
         IN Ret(TRUE, p.passed, p.metrics, None)

\* SQLExecutor.execute_query
\*   urn_ok: _extract_platform finds a platform in the dataset URN
\*   native: get_native_connection gives "conn", "none" or "raise"
\*   engine: get_engine gives "engine" or "none"
ExecuteQuery(s, urn_ok, native, engine, db, limit) ==
    IF ~IsReadonlySql(s)
    THEN Ret(FALSE, FALSE, NoMetrics, "SQL must be read-only (SELECT only)")
    ELSE IF ~urn_ok
    THEN Ret(FALSE, FALSE, NoMetrics, "str(e)")
    ELSE IF native = "conn"
    THEN Fetched(db, limit)
    ELSE IF engine = "none"
    THEN Ret(FALSE, FALSE, NoMetrics, "No database connection available")
    ELSE Fetched(db, limit)

\* SQLExecutor._execute_snowflake_native
ExecuteSnowflakeNative(s, native, db, limit) ==
    IF native = "raise"
    THEN Ret(FALSE, FALSE, NoMetrics, "str(e)")
    ELSE IF native = "none"
    THEN Ret(FALSE, FALSE, NoMetrics, "No native Snowflake connection available")
    ELSE Fetched(db, limit)

\* AssertionExecutorAction._execute_single_assertion with _execute_sql, for
\* an assertion of type SQL that carries a statement
\*   evaluates: _evaluate_assertion accepts the fetched value
ExecuteSingleAssertion(s, native, db, evaluates) ==
    IF native = "raise"
    THEN Ret(FALSE, FALSE, NoMetrics, "Failed to connect")
    ELSE IF native = "none"
    THEN Ret(FALSE, FALSE, NoMetrics, "SQL execution failed")   \* None.cursor()
    ELSE IF db.raises
    THEN Ret(TRUE, FALSE, NoMetrics, "SQL execution failed")
    ELSE Ret(TRUE, evaluates, NoMetrics, None)

\* TableCustomSQLTest.execute
\*   conn_str: get_connection_string() gives a connection string
\*   expected: params holds expected_result;  equal: the scalar equals it
CustomSqlExecute(s, conn_str, expected, db, equal) ==
    IF ~conn_str
    THEN Ret(FALSE, FALSE, NoMetrics, "connection_string parameter is required")
    ELSE IF s = <<>>
    THEN Ret(FALSE, FALSE, NoMetrics, "sql parameter is required")
    ELSE IF ~expected
    THEN Ret(FALSE, FALSE, NoMetrics, "expected_result parameter is required")
    ELSE IF db.raises
    THEN Ret(TRUE, FALSE, NoMetrics, "Query execution failed")
    ELSE Ret(TRUE, equal, NoMetrics, None)

(***************************************************************************)
(* Source configurations and dataset URNs                                  *)
(***************************************************************************)
\* An allow/deny pattern of a source configuration.  `present` tells whether
\* the configuration dict holds the key; an absent pattern parses to the
\* default, which allows everything.
AcceptAll == [present |-> FALSE, allow |-> { <<"*">> }, deny |-> {}]
Pattern(allow, deny) == [present |-> TRUE, allow |-> allow, deny |-> deny]

\* A glob-like pattern against a dotted name, both as sequences of the
\* dot-separated components; "*" stands for one or more components.
RECURSIVE GlobMatch(_, _)
GlobMatch(pat, target) ==
    IF pat = <<>> THEN target = <<>>
    ELSE IF Head(pat) = "*"
    THEN \E n \in 1..Len(target) :
            GlobMatch(Tail(pat), SubSeq(target, n + 1, Len(target)))
    ELSE /\ target # <<>>
         /\ Head(target) = Head(pat)
         /\ GlobMatch(Tail(pat), Tail(target))

\* AllowDenyPattern.allowed: no deny pattern matches and some allow pattern does
Allowed(p, target) ==
    /\ \A d \in p.deny : ~GlobMatch(d, target)
    /\ \E a \in p.allow : GlobMatch(a, target)

\* the config dict of an ingestion source
\*   account_id, platform_instance: "" when the key is absent or empty
\*   valid: SnowflakeV2Config.parse_obj accepts the (secret-resolved) config
Cfg(acct, inst, db, sch, tbl, fq, valid) ==
    [account_id |-> acct, platform_instance |-> inst,
     database_pattern |-> db, schema_pattern |-> sch, table_pattern |-> tbl,
     match_fully_qualified_names |-> fq, valid |-> valid]

\* a dataset URN: urn:li:dataset:(urn:li:dataPlatform:<platform>,<name>,<env>)
\*   marked: the text holds "urn:li:dataPlatform:" followed by a comma and a
\*           non-empty platform (an empty platform is falsy, as None is)
\*   name: the dot-separated components of the name part
Urn(platform, name) == [marked |-> TRUE, platform |-> platform, name |-> name]
BadUrn == [marked |-> FALSE, platform |-> "", name |-> <<>>]

\* mutant: the key keeps the first three components
ParseDatasetKeyLeading(urn) ==
    IF ~urn.marked THEN [platform |-> "", key |-> <<>>]
    ELSE [platform |-> urn.platform,
          key |-> IF Len(urn.name) >= 3 THEN SubSeq(urn.name, 1, 3) ELSE urn.name]

\* ConnectorRegistry._parse_dataset_key: (platform, key); ("", <<>>) is
\* (None, None).  The platform names of the model are lower case already.
ParseDatasetKey(urn) ==
    IF ~urn.marked THEN [platform |-> "", key |-> <<>>]
    ELSE [platform |-> urn.platform,
          key |-> IF Len(urn.name) >= 3
                  THEN SubSeq(urn.name, Len(urn.name) - 2, Len(urn.name))
                  ELSE urn.name]

\* a ${SECRET} reference held by a config, and the value the secret store of
\* DataHub keeps for it
SecretRef   == "${DB}"
SecretValue == "sales"

\* what the secret store does when it is asked
SecretStores == {"answers", "fails"}

\* the names of a pattern with every reference replaced by its value
ResolveNames(names) ==
    { [i \in 1..Len(n) |-> IF n[i] = SecretRef THEN SecretValue ELSE n[i]] : n \in names }

\* ConnectorRegistry._resolve_secrets: the config with its references
\* resolved; the config itself when it holds none, or when the store fails
ResolveSecrets(config, secrets) ==
    IF secrets = "fails" THEN config
    ELSE [config EXCEPT
            !.database_pattern.allow = ResolveNames(@), !.database_pattern.deny = ResolveNames(@),
            !.schema_pattern.allow = ResolveNames(@), !.schema_pattern.deny = ResolveNames(@),
            !.table_pattern.allow = ResolveNames(@), !.table_pattern.deny = ResolveNames(@)]

\* ConnectorRegistry._snowflake_source_matches_dataset
SnowflakeSourceMatchesDataset(dataset_key, source_config, secrets) ==
    LET cfg == ResolveSecrets(source_config, secrets) IN
    IF ~cfg.valid THEN FALSE                    \* parse_obj raises: except -> False
    ELSE IF Len(dataset_key) # 3 THEN FALSE
    ELSE LET db     == dataset_key[1]
             schema == dataset_key[2]
             table  == dataset_key[3]
             schema_target == IF cfg.match_fully_qualified_names
                              THEN <<db, schema>> ELSE <<schema>>
         IN IF ~Allowed(cfg.database_pattern, <<db>>) THEN FALSE
            ELSE IF ~Allowed(cfg.schema_pattern, schema_target) THEN FALSE
            ELSE IF ~Allowed(cfg.table_pattern, <<db, schema, table>>) THEN FALSE
            ELSE TRUE

\* the score _select_best_source gives a matching snowflake source
Score(cfg) ==
    (IF cfg.account_id # "" THEN 2 ELSE 0)
      + (IF cfg.platform_instance # "" THEN 1 ELSE 0)
      + (IF cfg.database_pattern.present THEN 1 ELSE 0)
      + (IF cfg.schema_pattern.present THEN 1 ELSE 0)
      + (IF cfg.table_pattern.present THEN 1 ELSE 0)

\* the loop of _select_best_source from source i on; best is the position of
\* the best source so far (0: None)
RECURSIVE SelectLoop(_, _, _, _, _, _, _)
SelectLoop(platform, dataset_key, sources, secrets, i, best, best_score) ==
    IF i > Len(sources) THEN best
    ELSE LET cfg == sources[i].config IN
         IF platform = "snowflake"
         THEN IF ~SnowflakeSourceMatchesDataset(dataset_key, cfg, secrets)
              THEN SelectLoop(platform, dataset_key, sources, secrets, i + 1, best, best_score)
              ELSE IF Score(cfg) > best_score
              THEN SelectLoop(platform, dataset_key, sources, secrets, i + 1, i, Score(cfg))
              ELSE SelectLoop(platform, dataset_key, sources, secrets, i + 1, best, best_score)
         ELSE SelectLoop(platform, dataset_key, sources, secrets, i + 1, best, best_score)

\* mutant: a later source of equal score replaces the best one
RECURSIVE SelectLoopLastWins(_, _, _, _, _, _, _)
SelectLoopLastWins(platform, dataset_key, sources, secrets, i, best, best_score) ==
    IF i > Len(sources) THEN best
    ELSE LET cfg == sources[i].config IN
         IF platform = "snowflake" /\ SnowflakeSourceMatchesDataset(dataset_key, cfg, secrets)
              /\ Score(cfg) >= best_score
         THEN SelectLoopLastWins(platform, dataset_key, sources, secrets, i + 1, i, Score(cfg))
         ELSE SelectLoopLastWins(platform, dataset_key, sources, secrets, i + 1, best, best_score)

SelectBestSourceLastWins(platform, dataset_key, sources, secrets) ==
    SelectLoopLastWins(platform, dataset_key, sources, secrets, 1, 0, -1)

\* ConnectorRegistry._select_best_source: the position in `sources` of the
\* source returned, 0 for None
SelectBestSource(platform, dataset_key, sources, secrets) ==
    SelectLoop(platform, dataset_key, sources, secrets, 1, 0, -1)

(***************************************************************************)
(* Candidate sources and dataset names of SpecSelect                       *)
(***************************************************************************)
MaxSources == 2
MaxExtra   == 1

AnyName == { <<"*">> }

CandidateConfigs ==
    { Cfg("", "", AcceptAll, AcceptAll, AcceptAll, FALSE, TRUE),
      Cfg("", "", Pattern({ <<"sales">> }, {}), Pattern(AnyName, {}), Pattern(AnyName, {}),
          FALSE, TRUE),
      Cfg("acct", "inst", AcceptAll, AcceptAll, AcceptAll, FALSE, TRUE),
      Cfg("acct", "", Pattern(AnyName, { <<"finance">> }), AcceptAll, AcceptAll, FALSE, TRUE),
      Cfg("", "inst", AcceptAll, Pattern({ <<"sales", "public">> }, {}), AcceptAll,
          TRUE, TRUE),
      Cfg("", "", AcceptAll, Pattern({ <<"raw">> }, {}),
          Pattern({ <<"*", "orders">> }, {}), FALSE, TRUE),
      Cfg("acct", "inst", Pattern({ <<"sales">> }, {}), AcceptAll, AcceptAll, FALSE, FALSE),
      Cfg("", "", Pattern({ <<SecretRef>> }, {}), AcceptAll, AcceptAll, FALSE, TRUE) }

\* an entry of the platform -> sources map: the source's name and config
Entry(name, cfg) == [name |-> name, config |-> cfg]

\* the lists of up to n distinct members of a set
Injective(f) == \A i, j \in DOMAIN f : f[i] = f[j] => i = j
ListsOf(S, n) == UNION { { f \in [1..k -> S] : Injective(f) } : k \in 0..n }

\* lists of candidates; a source is named after its place in the catalog
CandidateLists ==
    { [i \in 1..Len(cs) |-> Entry(i, cs[i])] : cs \in ListsOf(CandidateConfigs, MaxSources) }

\* the last n components of a name
Suffix(name, n) == SubSeq(name, Len(name) - n + 1, Len(name))

\* the full names db.schema.table, with up to MaxExtra leading components
FullNames ==
    { extra \o <<db, schema, table>> :
        extra \in UNION { [1..k -> {"x", "sales"}] : k \in 0..MaxExtra },
        db \in {"sales", "finance"}, schema \in {"public", "raw"},
        table \in {"orders", "users"} }

\* the names of the datasets: full names and names short of components
DatasetNames == UNION { { Suffix(name, n) : n \in 1..Len(name) } : name \in FullNames }

(***************************************************************************)
(* The connector registry                                                  *)
(***************************************************************************)
\* str.lower and str.upper on the platform names of the model
LowerName(n) ==
    CASE n = "Snowflake" -> "snowflake"
      [] n = "SNOWFLAKE" -> "snowflake"
      [] n = "ORACLE"    -> "oracle"
      [] OTHER           -> n

UpperName(n) ==
    CASE n = "snowflake" -> "SNOWFLAKE"
      [] n = "Snowflake" -> "SNOWFLAKE"
      [] n = "oracle"    -> "ORACLE"
      [] n = "postgres"  -> "POSTGRES"
      [] OTHER           -> n

\* the platform names dataset URNs carry, and the keys of the sources map
UrnPlatforms    == {"snowflake", "Snowflake", "oracle"}
SourcePlatforms == {"snowflake", "oracle", "postgres"}

\* a config that stands for "no config" in connection strings not built from one
NoCfg == Cfg("", "", AcceptAll, AcceptAll, AcceptAll, FALSE, FALSE)

\* a connection string, by where it comes from; NoConn is None
Conn(from, platform, cfg) == [from |-> from, platform |-> platform, config |-> cfg]
NoConn == Conn("none", "", NoCfg)

\* ConnectorRegistry._extract_platform_from_urn; "" is None
ExtractPlatformFromUrn(urn) == IF ~urn.marked THEN "" ELSE urn.platform

\* _parse_dataset_key with the platform lower-cased as the code does
ParseDatasetKeyLower(urn) ==
    [platform |-> LowerName(ParseDatasetKey(urn).platform),
     key |-> ParseDatasetKey(urn).key]

\* an ingestion source as DataHub returns it
\*   recipe: "ok", "none" (no recipe), "badjson", "noconfig" (no source.config)
RawSource(type, recipe, cfg) == [type |-> type, recipe |-> recipe, config |-> cfg]

\* the entries of the sources map under platform p, built from source i on
RECURSIVE SourceEntries(_, _, _)
SourceEntries(sources, p, i) ==
    IF i > Len(sources) THEN <<>>
    ELSE LET source == sources[i]
             source_type == LowerName(source.type)
         IN IF source_type = "" \/ source.recipe # "ok" \/ source_type # p
            THEN SourceEntries(sources, p, i + 1)
            ELSE <<Entry(i, source.config)>> \o SourceEntries(sources, p, i + 1)

\* the platform -> sources map _load_ingestion_sources builds
SourceMap(sources) == [p \in SourcePlatforms |-> SourceEntries(sources, p, 1)]
EmptyMap == [p \in SourcePlatforms |-> <<>>]

\* dict lookups on the sources map
SourcesOf(map, p) == IF p \in DOMAIN map THEN map[p] ELSE <<>>

\* mutant: the cache is not looked at
LoadIngestionSourcesRefetching(cache, g, sources) ==
    IF g \in {"none", "null", "down"} THEN [map |-> EmptyMap, cache |-> cache]
    ELSE [map |-> SourceMap(sources), cache |-> <<SourceMap(sources)>>]

\* ConnectorRegistry._load_ingestion_sources: the map returned and the cache
\* afterwards
LoadIngestionSources(cache, g, sources) ==
    IF cache # <<>> THEN [map |-> cache[1], cache |-> cache]
    ELSE IF g = "none" THEN [map |-> EmptyMap, cache |-> cache]
    ELSE IF g = "null" THEN [map |-> EmptyMap, cache |-> cache]
    ELSE IF g = "down" THEN [map |-> EmptyMap, cache |-> cache]
    ELSE [map |-> SourceMap(sources), cache |-> <<SourceMap(sources)>>]

\* ConnectorRegistry._build_connection_string_from_ingestion_config
BuildConnectionStringFromIngestionConfig(platform, config) ==
    IF platform \in {"snowflake", "postgres", "postgresql", "mysql"}
    THEN IF config.valid THEN Conn("catalog", platform, config)
         ELSE NoConn                            \* parse_obj raises: except -> None
    ELSE NoConn

\* the connection strings of explicit connector configs: the one given to the
\* constructor and the one handed to register_connector
ConnectionStrings == {"set", "registered"}

\* an explicit connection string as get_connection_string returns it
ExplicitConn(platform, s) == Conn(IF s = "set" THEN "explicit" ELSE s, platform, NoCfg)

\* mutant: the connection string is built from the source the matching selects
GetConnectionStringSelected(urn, configs, map, env) ==
    LET platform == ExtractPlatformFromUrn(urn)
        pick == SelectBestSource(platform, ParseDatasetKey(urn).key,
                                 SourcesOf(map, platform), "answers")
    IN IF platform = "" THEN NoConn
       ELSE IF configs[platform] \in ConnectionStrings
       THEN ExplicitConn(platform, configs[platform])
       ELSE IF pick # 0
       THEN BuildConnectionStringFromIngestionConfig(
                platform, SourcesOf(map, platform)[pick].config)
       ELSE IF env[UpperName(platform)] THEN Conn("env", UpperName(platform), NoCfg)
       ELSE NoConn

\* mutant: an identifier without a platform is resolved as a snowflake one
GetConnectionStringDefaulted(urn, configs, map, env) ==
    LET platform == IF ExtractPlatformFromUrn(urn) = "" THEN "snowflake"
                    ELSE ExtractPlatformFromUrn(urn) IN
    IF configs[platform] \in ConnectionStrings
    THEN ExplicitConn(platform, configs[platform])
    ELSE IF SourcesOf(map, platform) # <<>>
    THEN BuildConnectionStringFromIngestionConfig(
             platform, SourcesOf(map, platform)[1].config)
    ELSE IF env[UpperName(platform)] THEN Conn("env", UpperName(platform), NoCfg)
    ELSE NoConn

\* ConnectorRegistry.get_connection_string, given the map the load returned
GetConnectionString(urn, configs, map, env) ==
    LET platform == ExtractPlatformFromUrn(urn) IN
    IF platform = "" THEN NoConn
    ELSE IF configs[platform] \in ConnectionStrings
       THEN ExplicitConn(platform, configs[platform])
    ELSE IF SourcesOf(map, platform) # <<>>
    THEN BuildConnectionStringFromIngestionConfig(
             platform, SourcesOf(map, platform)[1].config)
    ELSE IF env[UpperName(platform)] THEN Conn("env", UpperName(platform), NoCfg)
    ELSE NoConn

\* whether get_connection_string gets as far as loading the sources
LoadsSources(urn, configs) ==
    /\ ExtractPlatformFromUrn(urn) # ""
    /\ configs[ExtractPlatformFromUrn(urn)] \notin ConnectionStrings

\* ConnectorRegistry.get_native_connection, given the map the load returned;
\* connects: get_connection() does not raise; secrets: what the secret store
\* does when asked
GetNativeConnection(urn, map, connects, secrets) ==
    LET parsed_key == ParseDatasetKeyLower(urn)
        platform == parsed_key.platform
        key == parsed_key.key
        sources == SourcesOf(map, platform)
        selected == SelectBestSource(platform, key, sources, secrets)
    IN IF platform = "" \/ key = <<>> THEN NoConn
       ELSE IF sources = <<>> THEN NoConn
       ELSE IF selected = 0 THEN NoConn
       ELSE IF platform = "snowflake"
       THEN IF ResolveSecrets(sources[selected].config, secrets).valid /\ connects
            THEN Conn("native", platform, sources[selected].config)
            ELSE NoConn
       ELSE NoConn

\* an engine create_engine built: the id-th one, from connection string from;
\* NoEngine is "no engine" (a key missing from _engines, or None)
Engine(id, from) == [id |-> id, from |-> from]
NoEngine == Engine(0, NoConn)

\* mutant: registering leaves the cached engine where it is
RegisterConnectorKeeping(platform, connection_string, configs, cached) ==
    [configs |-> [configs EXCEPT ![platform] = connection_string],
     engines |-> cached]

\* ConnectorRegistry.register_connector: connector_configs and _engines after it
RegisterConnector(platform, connection_string, configs, cached) ==
    [configs |-> [configs EXCEPT ![platform] = connection_string],
     engines |-> [cached EXCEPT ![platform] = NoEngine]]

\* mutant: the cache is not consulted
GetEngineUncached(urn, cached, conn_str, created, id) ==
    LET platform == ExtractPlatformFromUrn(urn) IN
    IF platform = "" THEN [value |-> NoEngine, engines |-> cached, made |-> FALSE]
    ELSE IF conn_str = NoConn \/ ~created
    THEN [value |-> NoEngine, engines |-> cached, made |-> FALSE]
    ELSE [value |-> Engine(id, conn_str),
          engines |-> [cached EXCEPT ![platform] = Engine(id, conn_str)],
          made |-> TRUE]

\* ConnectorRegistry.get_engine without a connection_string argument: the
\* engine returned, _engines afterwards and whether create_engine built one
\*   conn_str: what get_connection_string returns; created: create_engine
\*   does not raise; id: the number of the engine it would build
GetEngine(urn, cached, conn_str, created, id) ==
    LET platform == ExtractPlatformFromUrn(urn) IN
    IF platform = "" THEN [value |-> NoEngine, engines |-> cached, made |-> FALSE]
    ELSE IF cached[platform] # NoEngine
    THEN [value |-> cached[platform], engines |-> cached, made |-> FALSE]
    ELSE IF conn_str = NoConn \/ ~created
    THEN [value |-> NoEngine, engines |-> cached, made |-> FALSE]
    ELSE [value |-> Engine(id, conn_str),
          engines |-> [cached EXCEPT ![platform] = Engine(id, conn_str)],
          made |-> TRUE]

\* whether get_engine asks get_connection_string
EngineLooksUp(urn, cached) ==
    ExtractPlatformFromUrn(urn) # "" /\ cached[ExtractPlatformFromUrn(urn)] = NoEngine

\* the cached engines in the order the dict holds them: keys are inserted when
\* an engine is built, so in the order of the engines' numbers
RECURSIVE CachedFrom(_, _, _)
CachedFrom(cached, id, last) ==
    IF id > last THEN <<>>
    ELSE (IF \E p \in DOMAIN cached : cached[p].id = id THEN <<id>> ELSE <<>>)
             \o CachedFrom(cached, id + 1, last)

\* the dispose calls of the loop of close_all from place i on
\*   faulty: the engines whose dispose raises
RECURSIVE DisposeLoopAborting(_, _, _, _)
DisposeLoopAborting(ids, i, counts, faulty) ==
    IF i > Len(ids) THEN [counts |-> counts, raised |-> FALSE]
    ELSE IF ids[i] \in faulty
    THEN [counts |-> [counts EXCEPT ![ids[i]] = @ + 1], raised |-> TRUE]
    ELSE DisposeLoopAborting(ids, i + 1, [counts EXCEPT ![ids[i]] = @ + 1], faulty)

RECURSIVE DisposeLoop(_, _, _, _)
DisposeLoop(ids, i, counts, faulty) ==
    IF i > Len(ids) THEN [counts |-> counts, raised |-> FALSE]
    ELSE DisposeLoop(ids, i + 1, [counts EXCEPT ![ids[i]] = @ + 1], faulty)

\* ConnectorRegistry.close_all: both caches, the dispose counts and whether
\* it raised
CloseAll(cached, natives, counts, faulty) ==
    LET loop == DisposeLoop(CachedFrom(cached, 1, Len(counts)), 1, counts, faulty) IN
    IF loop.raised
    THEN [engines |-> cached, natives |-> natives, counts |-> loop.counts, raised |-> TRUE]
    ELSE [engines |-> [p \in DOMAIN cached |-> NoEngine], natives |-> <<>>,
          counts |-> loop.counts, raised |-> FALSE]

\* how often one get_connection_string call passes the config of each source
\* of the platform through _resolve_secrets
ConnectionStringResolveCalls(urn, configs, map) ==
    LET platform == ExtractPlatformFromUrn(urn)
        sources == SourcesOf(map, platform)
    IN IF ~LoadsSources(urn, configs) THEN <<>>
       ELSE [i \in 1..Len(sources) |-> IF i = 1 THEN 1 ELSE 0]

\* how often one get_native_connection call passes the config of each
\* candidate through _resolve_secrets: once when it is matched against the
\* dataset, and once more when it is the selected one
NativeResolveCalls(urn, map, secrets) ==
    LET parsed_key == ParseDatasetKeyLower(urn)
        platform == parsed_key.platform
        sources == SourcesOf(map, platform)
        selected == SelectBestSource(platform, parsed_key.key, sources, secrets)
    IN IF platform = "" \/ parsed_key.key = <<>> THEN <<>>
       ELSE [i \in 1..Len(sources) |->
                (IF platform = "snowflake" THEN 1 ELSE 0)
                  + (IF platform = "snowflake" /\ selected = i THEN 1 ELSE 0)]

MaxCatalog == 2

CatalogPool ==
    { RawSource("snowflake", "ok",
                Cfg("", "", Pattern({ <<"finance">> }, {}), AcceptAll, AcceptAll,
                    FALSE, TRUE)),
      RawSource("SNOWFLAKE", "ok",
                Cfg("acct", "", Pattern({ <<"sales">> }, {}), AcceptAll, AcceptAll,
                    FALSE, TRUE)),
      RawSource("snowflake", "ok",
                Cfg("", "inst", AcceptAll, AcceptAll, AcceptAll, FALSE, FALSE)),
      RawSource("snowflake", "none",
                Cfg("acct", "inst", AcceptAll, AcceptAll, AcceptAll, FALSE, TRUE)),
      RawSource("oracle", "ok",
                Cfg("", "", AcceptAll, AcceptAll, AcceptAll, FALSE, TRUE)) }

Catalogs == ListsOf(CatalogPool, MaxCatalog)

ConnUrns ==
    { Urn("snowflake", <<"sales", "public", "orders">>),
      Urn("Snowflake", <<"sales", "public", "orders">>),
      Urn("oracle", <<"sales", "public", "orders">>),
      Urn("snowflake", <<>>),                        \* no name component
      BadUrn }

(***************************************************************************)
(* The validators of TEST_REGISTRY                                         *)
(***************************************************************************)
TableTypes ==
    {"table_row_count", "table_row_count_equals",
     "table_column_count_equals", "table_column_count_between"}

ColumnProfileTypes ==
    {"column_values_not_null", "column_values_unique",
     "column_min_between", "column_max_between", "column_mean_between",
     "column_median_between", "column_stddev_between",
     "column_distinct_count_between", "column_unique_proportion_between",
     "column_null_count_equals"}

ColumnQueryTypes ==
    {"column_value_range", "column_values_in_set", "column_values_not_in_set",
     "column_values_match_regex", "column_values_not_match_regex",
     "column_length_between"}

TEST_REGISTRY ==
    TableTypes \cup ColumnProfileTypes \cup ColumnQueryTypes \cup {"table_custom_sql"}

\* the params dict of a test
\*   min, max, value: <<>> when the key is absent, else <<the number>>
\*       (min stands for min_rows / min_value / min_length, and so on)
\*   numeric: the numeric entries hold text int() and float() accept
\*   connection_string: "absent", "empty" or "set"
\*   payload: value_set / regex / sql and expected_result are given
Params(min, max, value, numeric, cs, payload) ==
    [min |-> min, max |-> max, value |-> value, numeric |-> numeric,
     connection_string |-> cs, payload |-> payload]

\* a field profile; every statistic is <<>> for None
FieldProfile(path, nullCount, uniqueCount, stat) ==
    [fieldPath |-> path, nullCount |-> nullCount, uniqueCount |-> uniqueCount,
     min |-> stat, max |-> stat, mean |-> stat, median |-> stat, stdev |-> stat]

\* a dataset profile; a profile argument is <<>> for None, else <<Profile>>
Profile(rowCount, columnCount, fieldProfiles) ==
    [rowCount |-> rowCount, columnCount |-> columnCount, fieldProfiles |-> fieldProfiles]

\* mutant: a result without an error text carries no native_results at all
TestResultBare(success, error) ==
    [raised |-> FALSE, success |-> success, error |-> error,
     native_results |-> IF error # "" THEN {"error"} ELSE {},
     status |-> "", actual_value |-> <<>>]

\* a TestResult, or the exception raised instead of one
\*   error: native_results["error"], "" when there is no such entry
\*   native_results: the keys of the dict; "actual" stands for the measured
\*       entries (actual_row_count, null_count, invalid_count, ...)
\*   status: native_results["status"], "" when there is no such entry
TestResult(success, error) ==
    [raised |-> FALSE, success |-> success, error |-> error,
     native_results |-> IF error # "" THEN {"error"} ELSE {"actual", "status"},
     status |-> IF error # "" THEN "" ELSE IF success THEN "PASS" ELSE "FAIL",
     actual_value |-> <<>>]
Raises(what) ==
    [raised |-> TRUE, success |-> FALSE, error |-> what, native_results |-> {},
     status |-> "", actual_value |-> <<>>]

\* a result with its actual_value, kept for the proportion validator: the
\* proportion num/den
WithActual(test_result, value) == [test_result EXCEPT !.actual_value = <<value>>]

\* mutant: the proportion is computed without looking at the row count
UniqueProportionUnguarded(uniqueCount, rowCount) == [num |-> uniqueCount, den |-> rowCount]

\* unique_proportion of ColumnUniqueProportionBetweenTest.execute:
\* uniqueCount / rowCount if rowCount > 0 else 0.0
UniqueProportion(uniqueCount, rowCount) ==
    IF rowCount > 0 THEN [num |-> uniqueCount, den |-> rowCount]
    ELSE [num |-> 0, den |-> 1]

\* mutant: no constructor checks the column
ConstructLenient(type, column) == TestResult(TRUE, "")

\* test_class(...): the constructors of the column-level validators raise
\* ValueError when no column is given; the others accept anything
Construct(type, column) ==
    IF type \in ColumnProfileTypes \cup ColumnQueryTypes /\ column = ""
    THEN Raises("column parameter is required")
    ELSE TestResult(TRUE, "")

\* int(x) / float(x) of a params entry raises
BadCast(params, entry) == entry # <<>> /\ ~params.numeric

\* actual >= int(min, default 0), and actual <= int(max) when max is given
IntBetween(actual, params) ==
    IF BadCast(params, params.min) THEN Raises("ValueError")
    ELSE LET lo == IF params.min = <<>> THEN 0 ELSE params.min[1] IN
         IF params.max = <<>> THEN TestResult(actual >= lo, "")
         ELSE IF ~(actual >= lo) THEN TestResult(FALSE, "")
         ELSE IF ~params.numeric THEN Raises("ValueError")
         ELSE TestResult(actual <= params.max[1], "")

\* float(min) <= actual <= float(max); lower: the default of min is 0
\* rather than -inf; the default of max is inf
FloatBetween(actual, params, lower) ==
    IF BadCast(params, params.min) \/ BadCast(params, params.max)
    THEN Raises("ValueError")
    ELSE TestResult(/\ IF params.min = <<>> THEN (lower => 0 <= actual)
                       ELSE params.min[1] <= actual
                    /\ params.max = <<>> \/ actual <= params.max[1], "")

\* actual == int(value, default 0)
EqualsValue(actual, params) ==
    IF BadCast(params, params.value) THEN Raises("ValueError")
    ELSE TestResult(actual = (IF params.value = <<>> THEN 0 ELSE params.value[1]), "")

\* next((fp for fp in fieldProfiles if fp.fieldPath == column), None): the
\* place of the first such field profile from i on, 0 for None
RECURSIVE FindField(_, _, _)
FindField(fieldProfiles, column, i) ==
    IF i > Len(fieldProfiles) THEN 0
    ELSE IF fieldProfiles[i].fieldPath = column THEN i
    ELSE FindField(fieldProfiles, column, i + 1)

\* the statistic each column validator of the between / equals kind reads
StatKey(type) ==
    CASE type = "column_min_between"            -> "min"
      [] type = "column_max_between"            -> "max"
      [] type = "column_mean_between"           -> "mean"
      [] type = "column_median_between"         -> "median"
      [] type = "column_stddev_between"         -> "stdev"
      [] type = "column_distinct_count_between" -> "uniqueCount"
      [] type = "column_unique_proportion_between" -> "uniqueCount"
      [] OTHER                                  -> "nullCount"

\* execute of the four table validators
ExecuteTableProfile(type, params, prof) ==
    IF type \in {"table_row_count", "table_row_count_equals"}
    THEN IF prof = <<>> \/ prof[1].rowCount = <<>>
         THEN TestResult(FALSE, "Profile data not available")
         ELSE IF type = "table_row_count"
         THEN IntBetween(prof[1].rowCount[1], params)
         ELSE EqualsValue(prof[1].rowCount[1], params)
    ELSE IF prof = <<>> \/ prof[1].columnCount = <<>>
         THEN TestResult(FALSE, "Profile data not available")
         ELSE IF type = "table_column_count_between"
         THEN IntBetween(prof[1].columnCount[1], params)
         ELSE EqualsValue(prof[1].columnCount[1], params)

\* execute of the ten column validators that read the profile
ExecuteColumnProfile(type, column, params, prof) ==
    IF \/ prof = <<>>
       \/ prof[1].fieldProfiles = <<>>
       \/ (type = "column_unique_proportion_between" /\ prof[1].rowCount = <<>>)
    THEN TestResult(FALSE, "Profile data not available")
    ELSE LET at == FindField(prof[1].fieldProfiles, column, 1)
             field_profile == prof[1].fieldProfiles[at]
             rowCount == prof[1].rowCount
         IN IF at = 0 THEN TestResult(FALSE, "not found in profile")
            ELSE IF type = "column_values_unique"
            THEN IF field_profile.uniqueCount = <<>> \/ field_profile.nullCount = <<>>
                 THEN TestResult(FALSE, "Unique count data not available")
                 ELSE TestResult(field_profile.uniqueCount[1] =
                                   (IF rowCount = <<>> THEN 0 ELSE rowCount[1])
                                      - field_profile.nullCount[1], "")
            ELSE IF field_profile[StatKey(type)] = <<>>
            THEN TestResult(FALSE, "not available for column")
            ELSE LET actual == field_profile[StatKey(type)][1] IN
                 CASE type = "column_values_not_null" -> TestResult(actual = 0, "")
                   [] type = "column_null_count_equals" -> EqualsValue(actual, params)
                   [] type = "column_distinct_count_between" -> IntBetween(actual, params)
                   [] type = "column_stddev_between" -> FloatBetween(actual, params, TRUE)
                   [] type = "column_unique_proportion_between" ->
                        IF BadCast(params, params.min) \/ BadCast(params, params.max)
                        THEN Raises("ValueError")
                        ELSE LET lo == IF params.min = <<>> THEN 0 ELSE params.min[1]
                                 hi == IF params.max = <<>> THEN 1 ELSE params.max[1]
                                 unique_proportion == UniqueProportion(actual, rowCount[1])
                             IN WithActual(
                                    TestResult(/\ lo * unique_proportion.den <= unique_proportion.num
                                               /\ unique_proportion.num <= hi * unique_proportion.den,
                                               ""),
                                    unique_proportion)
                   [] OTHER -> FloatBetween(actual, params, FALSE)

\* QueryBasedTestTemplate.get_connection_string: whether it gives a non-empty
\* string; registry: a connector registry was set; resolved: what the
\* registry's get_connection_string returns
TemplateGetConnectionString(params, registry, resolved) ==
    IF params.connection_string # "absent" THEN params.connection_string = "set"
    ELSE IF registry THEN resolved # NoConn
    ELSE FALSE

\* the count in the first column of the row fetchone() gives, 0 for no row
InvalidCount(db) == IF db.rows = <<>> THEN 0 ELSE db.rows[1][1].v

\* execute of the six column validators that query the database
ExecuteColumnQuery(type, params, conn_str, db) ==
    IF ~conn_str THEN TestResult(FALSE, "connection_string parameter is required")
    ELSE IF type \in {"column_values_in_set", "column_values_not_in_set",
                      "column_values_match_regex", "column_values_not_match_regex"}
              /\ ~params.payload
    THEN TestResult(FALSE, "parameter is required")
    ELSE IF type = "column_length_between" /\ BadCast(params, params.min)
    THEN Raises("ValueError")
    ELSE IF \/ db.raises
            \/ (type = "column_value_range"
                  /\ (BadCast(params, params.min) \/ BadCast(params, params.max)))
            \/ (type = "column_length_between" /\ BadCast(params, params.max))
    THEN TestResult(FALSE, "Query execution failed")
    ELSE TestResult(InvalidCount(db) = 0, "")

\* test.execute(profile=profile) of the validator registered for the type
\*   equal: the scalar a custom SQL gives equals expected_result
Execute(type, column, params, prof, conn_str, db, equal) ==
    IF type \in TableTypes THEN ExecuteTableProfile(type, params, prof)
    ELSE IF type \in ColumnProfileTypes
    THEN ExecuteColumnProfile(type, column, params, prof)
    ELSE IF type \in ColumnQueryTypes
    THEN ExecuteColumnQuery(type, params, conn_str, db)
    ELSE LET r == CustomSqlExecute(IF params.payload THEN KwSelect ELSE <<>>,
                                   conn_str, params.payload, db, equal)
         IN TestResult(r.passed, IF r.error = None THEN "" ELSE r.error)

(***************************************************************************)
(* The inputs of SpecValidate                                              *)
(***************************************************************************)
MaxStat == 1

OptStats == { <<>> } \cup { <<n>> : n \in 0..MaxStat }

ParamSets ==
    { Params(<<>>, <<>>, <<>>, TRUE, "absent", FALSE),
      Params(<<1>>, <<1>>, <<1>>, TRUE, "absent", TRUE),
      Params(<<0>>, <<>>, <<0>>, FALSE, "absent", TRUE),
      Params(<<>>, <<0>>, <<>>, FALSE, "set", TRUE),
      Params(<<0>>, <<1>>, <<0>>, TRUE, "empty", TRUE) }

Profiles ==
    { <<>> }
      \cup { << Profile(<<>>, <<>>, <<>>) >> }
      \cup { << Profile(<<rc>>, <<2>>,
                        << FieldProfile("other", <<0>>, <<0>>, <<0>>),
                           \* a standard deviation is never negative
                           [FieldProfile("c", nullCount, uniqueCount, stat)
                               EXCEPT !.stdev = IF stat = <<-1>> THEN <<0>> ELSE stat] >>) >> :
               rc \in 0..MaxStat, nullCount \in OptStats,
               uniqueCount \in OptStats \cup { <<MaxStat + 1>> },   \* an estimate may exceed rowCount
               stat \in { <<>>, <<-1>>, <<1>> } }

ValidatorDbs == DbOutcomes({ <<>>, << <<IntV(0)>> >>, << <<IntV(1)>> >> })

(***************************************************************************)
(* The test executor                                                       *)
(***************************************************************************)
\* a TestConfig
TestConfig(name, type, dataset_pattern, column, params) ==
    [name |-> name, type |-> type, dataset_pattern |-> dataset_pattern,
     column |-> column, params |-> params]

\* the dotted name of a URN as text: its components with "." in between
RECURSIVE Dotted(_)
Dotted(name) ==
    IF Len(name) <= 1 THEN name
    ELSE <<Head(name), ".">> \o Dotted(Tail(name))

\* the text of a dataset URN, as the sequence of its tokens
UrnText(urn) ==
    <<"urn:li:dataset:(urn:li:dataPlatform:", urn.platform, ",">>
        \o Dotted(urn.name) \o <<",", "PROD", ")">>

\* fnmatch(name, pat) on token sequences: "*" stands for any run of tokens,
\* "?" for one token
RECURSIVE Fnmatch(_, _)
Fnmatch(name, pat) ==
    IF pat = <<>> THEN name = <<>>
    ELSE IF Head(pat) = "*"
    THEN \E n \in 0..Len(name) : Fnmatch(SubSeq(name, n + 1, Len(name)), Tail(pat))
    ELSE /\ name # <<>>
         /\ Head(pat) = "?" \/ Head(pat) = Head(name)
         /\ Fnmatch(Tail(name), Tail(pat))

\* mutant: every configured test matches every dataset
RECURSIVE FindMatchingTestsAll(_, _, _)
FindMatchingTestsAll(configs, urn, i) ==
    IF i > Len(configs) THEN <<>>
    ELSE <<i>> \o FindMatchingTestsAll(configs, urn, i + 1)

\* TestExecutor._find_matching_tests: the places of the matching tests, in
\* configuration order, from place i on
RECURSIVE FindMatchingTests(_, _, _)
FindMatchingTests(configs, urn, i) ==
    IF i > Len(configs) THEN <<>>
    ELSE IF Fnmatch(UrnText(urn), configs[i].dataset_pattern)
    THEN <<i>> \o FindMatchingTests(configs, urn, i + 1)
    ELSE FindMatchingTests(configs, urn, i + 1)

\* mutant: a failed retrieval gives the profile of an empty table
GetDatasetProfileDefaulted(source) ==
    IF source.raises THEN << Profile(<<0>>, <<0>>, <<>>) >> ELSE source.profile

\* TestExecutor._get_dataset_profile: a failed retrieval gives None
GetDatasetProfile(source) == IF source.raises THEN <<>> ELSE source.profile

\* mutant: the test name is part of the digest
AssertionUrnNamed(test_config, urn) ==
    [nativeType |-> test_config.type, nativeParameters |-> test_config.params,
     dataset |-> urn, field |-> test_config.column, name |-> test_config.name]

\* BaseTestTemplate.build_assertion_urn: the URN is a digest of these
AssertionUrn(test_config, urn) ==
    [nativeType |-> test_config.type, nativeParameters |-> test_config.params,
     dataset |-> urn, field |-> test_config.column]

\* the two records of a test: its definition, then its result
InfoRecord(test_config, urn) ==
    [entityUrn |-> AssertionUrn(test_config, urn), aspectName |-> "assertionInfo",
     test_name |-> test_config.name, result |-> <<>>]
ResultRecord(test_config, urn, test_result) ==
    [entityUrn |-> AssertionUrn(test_config, urn), aspectName |-> "assertionRunEvent",
     test_name |-> 0, result |-> <<test_result>>]

\* the validators that query the database
QueryBased(type) == type \in ColumnQueryTypes \cup {"table_custom_sql"}

\* the validator of the test asks the registry for a connection string
AsksRegistry(test_config, registry) ==
    /\ test_config.type \in ColumnQueryTypes \cup {"table_custom_sql"}
    /\ ~Construct(test_config.type, test_config.column).raised
    /\ test_config.params.connection_string = "absent"
    /\ registry

\* TestExecutor._execute_single_test: the records returned, or the exception
\*   resolved: what the registry's get_connection_string gives
\*   built: building the URN and the two aspects does not raise
ExecuteSingleTest(test_config, urn, prof, registry, resolved, db, equal, built) ==
    LET test_result ==
            Execute(test_config.type, test_config.column, test_config.params, prof,
                    TemplateGetConnectionString(test_config.params, registry, resolved),
                    db, equal)
    IN IF test_config.type \notin TEST_REGISTRY
       THEN [raised |-> FALSE, outcome |-> "unknown", mcps |-> <<>>]
       ELSE IF Construct(test_config.type, test_config.column).raised
       THEN [raised |-> TRUE, outcome |-> "constructor", mcps |-> <<>>]
       ELSE IF test_result.raised
       THEN [raised |-> TRUE, outcome |-> "execute", mcps |-> <<>>]
       ELSE IF ~built
       THEN [raised |-> TRUE, outcome |-> "build", mcps |-> <<>>]
       ELSE [raised |-> FALSE, outcome |-> "completed",
             mcps |-> << InfoRecord(test_config, urn),
                         ResultRecord(test_config, urn, test_result) >>]

\* mutant: a fault of one test ends the loop and leaves execute_tests_for_dataset
LoopBodyAborting(single, at, collected) ==
    IF single.raised
    THEN [pc |-> "raised", idx |-> at, mcps |-> collected]
    ELSE [pc |-> "loop", idx |-> at + 1, mcps |-> collected \o single.mcps]

\* the body of the loop of execute_tests_for_dataset: extend the records, or
\* log the fault and continue
LoopBody(single, at, collected) ==
    IF single.raised
    THEN [pc |-> "loop", idx |-> at + 1, mcps |-> collected]
    ELSE [pc |-> "loop", idx |-> at + 1, mcps |-> collected \o single.mcps]

(***************************************************************************)
(* The inputs of SpecExec                                                  *)
(***************************************************************************)
MaxTests == 3

EvalUrn == Urn("snowflake", <<"sales", "public", "orders">>)

NoParams == Params(<<>>, <<>>, <<>>, TRUE, "absent", FALSE)

\* the tests of the pool, without their names
TestPool ==
    { TestConfig(0, "table_row_count", <<"*">>, "", Params(<<1>>, <<>>, <<>>, TRUE, "absent", FALSE)),
      TestConfig(0, "column_values_not_null", <<"*", "sales", "*">>, "", NoParams),
      TestConfig(0, "column_values_not_null", <<"*", "finance", "*">>, "c", NoParams),
      TestConfig(0, "table_row_count_equals", <<"urn:li:dataset:(urn:li:dataPlatform:", "?", "*">>, "",
                 Params(<<>>, <<>>, <<1>>, FALSE, "absent", FALSE)),
      TestConfig(0, "row_count_typo", <<"*">>, "", NoParams),
      TestConfig(0, "column_values_in_set", UrnText(EvalUrn), "c",
                 Params(<<>>, <<>>, <<>>, TRUE, "absent", TRUE)) }

\* the configured lists of tests; a test is named after its place
\* the configured tests, each named by its place in the list: different
\* tests of the pool, or such a list with its first test configured once
\* more at the end, under another name
TestConfigLists ==
    { [i \in 1..Len(ts) |-> [ts[i] EXCEPT !.name = i]] :
        ts \in ListsOf(TestPool, MaxTests)
                 \cup { Append(us, us[1]) : us \in ListsOf(TestPool, MaxTests - 1) \ { <<>> } } }

ProfileSources ==
    { [raises |-> TRUE, profile |-> <<>>],
      [raises |-> FALSE, profile |-> <<>>],
      [raises |-> FALSE,
       profile |-> << Profile(<<1>>, <<2>>, << FieldProfile("c", <<0>>, <<1>>, <<1>>) >>) >>] }

(***************************************************************************)
(* DataQualityAction.act                                                   *)
(***************************************************************************)
\* an event envelope: its type, and the entity type, aspect name and entity
\* URN of the event it carries ("" stands for no URN)
Event(event_type, entityType, aspectName, entityUrn) ==
    [event_type |-> event_type, entityType |-> entityType,
     aspectName |-> aspectName, entityUrn |-> entityUrn]

\* the dataset URN act works on; "" when the event is skipped
ActDatasetUrn(enabled, event) ==
    IF ~enabled THEN ""
    ELSE IF event.event_type = "MetadataChangeLogEvent_v1"
    THEN IF event.entityType # "dataset" THEN ""
         ELSE IF event.aspectName # "datasetProfile" THEN ""
         ELSE event.entityUrn
    ELSE IF event.event_type = "EntityChangeEvent_v1"
    THEN IF event.entityType # "dataset" THEN "" ELSE event.entityUrn
    ELSE ""

\* act up to its emit loop: where it stands, the records to emit and the
\* errors logged; the graph client is always there, the constructor of the
\* action requires it
ActBegin(enabled, event, executor) ==
    IF ActDatasetUrn(enabled, event) = ""
    THEN [pc |-> "done", mcps |-> <<>>, errors |-> <<>>]
    ELSE IF executor.raises
    THEN [pc |-> "done", mcps |-> <<>>,
          errors |-> << [what |-> "Failed to process event", mcp |-> <<>>] >>]
    ELSE IF executor.mcps = <<>>
    THEN [pc |-> "done", mcps |-> <<>>, errors |-> <<>>]
    ELSE [pc |-> "emit", mcps |-> executor.mcps, errors |-> <<>>]

\* mutant: a failed emission leaves the loop and act
EmitBodyAborting(mcp, ok, at, sent, errors) ==
    IF ok
    THEN [pc |-> "emit", idx |-> at + 1,
          emitted |-> Append(sent, [mcp |-> mcp, ok |-> TRUE]), errors |-> errors]
    ELSE [pc |-> "raised", idx |-> at,
          emitted |-> Append(sent, [mcp |-> mcp, ok |-> FALSE]), errors |-> errors]

\* the body of the emit loop: graph.emit(mcp); a failure is logged
\*   ok: emit does not raise
EmitBody(mcp, ok, at, sent, errors) ==
    IF ok
    THEN [pc |-> "emit", idx |-> at + 1,
          emitted |-> Append(sent, [mcp |-> mcp, ok |-> TRUE]), errors |-> errors]
    ELSE [pc |-> "emit", idx |-> at + 1,
          emitted |-> Append(sent, [mcp |-> mcp, ok |-> FALSE]),
          errors |-> Append(errors, [what |-> "Failed to emit assertion", mcp |-> <<mcp>>])]

MaxEmitTests == 2

\* the records of n tests: a definition record and a result record for each
RECURSIVE RecordsOf(_)
RecordsOf(n) ==
    IF n = 0 THEN <<>>
    ELSE RecordsOf(n - 1) \o << [entityUrn |-> n, aspectName |-> "assertionInfo"],
                                 [entityUrn |-> n, aspectName |-> "assertionRunEvent"] >>

ActEvents ==
    { Event(t, e, a, u) :
        t \in {"MetadataChangeLogEvent_v1", "EntityChangeEvent_v1", "PlatformEvent_v1"},
        e \in {"dataset", "chart"}, a \in {"datasetProfile", "status"},
        u \in {"", "urn:li:dataset:1"} }

ActExecutors ==
    { [raises |-> TRUE, mcps |-> <<>>] }
      \cup { [raises |-> FALSE, mcps |-> RecordsOf(n)] : n \in 0..MaxEmitTests }

(***************************************************************************)
(* Idle values of each group of variables                                  *)
(***************************************************************************)
IdleAct ==
    /\ act_enabled = FALSE
    /\ act_event = Event("", "", "", "")
    /\ act_executor = [raises |-> FALSE, mcps |-> <<>>]
    /\ act_pc = "idle" /\ assertion_mcps = <<>> /\ act_idx = 0
    /\ emitted = <<>> /\ act_errors = <<>>
IdleLife  ==
    /\ sf_connections = <<>> /\ made = 0 /\ disposed = <<>>
    /\ queries = [count |-> 0, last |-> "none"]
IdleCall  ==
    /\ call_path = "" /\ call_sql = <<>> /\ call_native = "none" /\ call_engine = "none"
    /\ call_db = [raises |-> FALSE, columns |-> <<>>, rows |-> <<>>,
                  fault |-> "none", duration |-> 0]
    /\ call_limit = 0 /\ call_timeout = 0 /\ call_pc = "idle" /\ elapsed = 0
    /\ open_native = 0 /\ fetched_rows = 0 /\ callRet = <<>>
IdleRace  ==
    /\ race_pc = <<>> /\ race_entries = <<>> /\ race_made = 0 /\ race_disposed = {}
    /\ race_sources = "none" /\ race_queries = 0 /\ race_ops = {} /\ race_raised = {}
IdleGate  == sql = <<>> /\ gatePath = "idle" /\ gateReached = FALSE /\ gateRet = <<>>
IdleParse == result = [t |-> "none"] /\ row_limit = 0 /\ parsed = <<>>
IdleConn  ==
    /\ connector_configs = [p \in UrnPlatforms |-> "absent"]
    /\ graph = "none" /\ catalog = <<>>
    /\ environ = [n \in { UpperName(p) : p \in UrnPlatforms } |-> FALSE]
    /\ ingestion_source_cache = <<>>
    /\ engines = [p \in UrnPlatforms |-> NoConn]
    /\ connRet = <<>>
IdleVal   ==
    /\ val_type = "" /\ val_column = ""
    /\ val_params = Params(<<>>, <<>>, <<>>, TRUE, "absent", FALSE)
    /\ val_profile = <<>> /\ val_conn = [registry |-> FALSE, resolved |-> NoConn]
    /\ val_stage = "new" /\ valRet = <<>>
IdleExec  ==
    /\ test_configs = <<>> /\ target_urn = BadUrn
    /\ profile_source = [raises |-> FALSE, profile |-> <<>>]
    /\ has_registry = FALSE /\ pc = "idle" /\ matching_tests = <<>>
    /\ profile = <<>> /\ idx = 0 /\ mcps = <<>> /\ log = <<>>
    /\ profile_fetches = 0
IdleSel   ==
    sel_platform = "" /\ dataset_urn = BadUrn /\ candidates = <<>> /\ selRet = <<>>

(***************************************************************************)
(* SpecParse                                                               *)
(***************************************************************************)
InitParse ==
    /\ result \in Results
    /\ row_limit \in 0..MaxRowLimit
    /\ parsed = <<>>
    /\ IdleGate /\ IdleSel /\ IdleConn /\ IdleVal /\ IdleExec /\ IdleAct
    /\ IdleLife /\ IdleCall /\ IdleRace

CallParseQueryResult ==
    /\ parsed = <<>>
    /\ parsed' = <<ParseQueryResult(result, row_limit)>>
    /\ UNCHANGED <<result, row_limit, gateVars, selVars, actVars, lifeVars, callVars, raceVars, connVars, valVars, execVars>>

NextParse == CallParseQueryResult

(***************************************************************************)
(* SpecGate: one statement, handed once to one of the execution paths      *)
(***************************************************************************)
InitGate ==
    /\ sql \in Statements
    /\ gatePath = "idle"
    /\ gateReached = FALSE
    /\ gateRet = <<>>
    /\ IdleParse /\ IdleSel /\ IdleConn /\ IdleVal /\ IdleExec /\ IdleAct
    /\ IdleLife /\ IdleCall /\ IdleRace

Returned(path, r) ==
    /\ gatePath = "idle"
    /\ gatePath' = path
    /\ gateReached' = r.reached
    /\ gateRet' = <<r>>
    /\ UNCHANGED <<sql, parseVars, selVars, actVars, lifeVars, callVars, raceVars, connVars, valVars, execVars>>

\* _is_readonly_sql called on its own
CallIsReadonlySql ==
    Returned("_is_readonly_sql", Ret(FALSE, IsReadonlySql(sql), NoMetrics, None))

CallExecuteQuery ==
    \E urn_ok \in BOOLEAN, native \in {"conn", "none", "raise"},
       engine \in {"engine", "none"}, db \in DbOutcomes(GateTables),
       limit \in {1, DefaultRowLimit} :
        Returned("execute_query", ExecuteQuery(sql, urn_ok, native, engine, db, limit))

CallExecuteSnowflakeNative ==
    \E native \in {"conn", "none", "raise"}, db \in DbOutcomes(GateTables),
       limit \in {1, DefaultRowLimit} :
        Returned("_execute_snowflake_native", ExecuteSnowflakeNative(sql, native, db, limit))

CallExecuteSingleAssertion ==
    \E native \in {"conn", "none", "raise"}, db \in DbOutcomes(GateTables),
       evaluates \in BOOLEAN :
        Returned("_execute_sql", ExecuteSingleAssertion(sql, native, db, evaluates))

CallCustomSqlExecute ==
    \E conn_str \in BOOLEAN, expected \in BOOLEAN, db \in DbOutcomes(GateTables),
       equal \in BOOLEAN :
        Returned("table_custom_sql", CustomSqlExecute(sql, conn_str, expected, db, equal))

NextGate ==
    \/ CallIsReadonlySql
    \/ CallExecuteQuery
    \/ CallExecuteSnowflakeNative
    \/ CallExecuteSingleAssertion
    \/ CallCustomSqlExecute

(***************************************************************************)
(* SpecSelect: source matching and selection as functions of the candidate *)
(* list and the dataset URN                                                *)
(***************************************************************************)
InitSelect ==
    /\ sel_platform \in {"snowflake", "postgres"}
    /\ dataset_urn \in { Urn(sel_platform, name) : name \in DatasetNames }
    /\ candidates \in CandidateLists
    /\ selRet = <<>>
    /\ IdleGate /\ IdleParse /\ IdleConn /\ IdleVal /\ IdleExec /\ IdleAct
    /\ IdleLife /\ IdleCall /\ IdleRace

\* _snowflake_source_matches_dataset on the key of the URN and candidate i
CallSourceMatches ==
    \E i \in 1..Len(candidates), secrets \in SecretStores :
        /\ selRet' = << [op |-> "matches", at |-> i, secrets |-> secrets,
                         value |-> SnowflakeSourceMatchesDataset(
                                       ParseDatasetKey(dataset_urn).key,
                                       candidates[i].config, secrets)] >>
        /\ UNCHANGED <<sel_platform, dataset_urn, candidates, gateVars, actVars, lifeVars, callVars, raceVars, parseVars, connVars, valVars, execVars>>

\* _select_best_source on the key of the URN and the candidates
CallSelectBestSource ==
    \E secrets \in SecretStores :
    /\ selRet' = << [op |-> "select", secrets |-> secrets,
                     at |-> SelectBestSource(sel_platform,
                                             ParseDatasetKey(dataset_urn).key,
                                             candidates, secrets),
                     value |-> FALSE] >>
    /\ UNCHANGED <<sel_platform, dataset_urn, candidates, gateVars, actVars, lifeVars, callVars, raceVars, parseVars, connVars, valVars, execVars>>

NextSelect == CallSourceMatches \/ CallSelectBestSource

(***************************************************************************)
(* SpecConn: a registry over a catalog of ingestion sources                *)
(***************************************************************************)
InitConn ==
    /\ connector_configs \in
           { [p \in UrnPlatforms |-> IF p = q THEN v ELSE "absent"] :
               q \in {"snowflake"}, v \in {"empty", "set"} }
    /\ graph \in {"none", "up", "down"}
    /\ catalog \in Catalogs
    /\ environ \in
           { [n \in { UpperName(p) : p \in UrnPlatforms } |-> n \in on] :
               on \in { {}, {"SNOWFLAKE", "ORACLE"} } }
    /\ ingestion_source_cache = <<>>
    /\ engines = [p \in UrnPlatforms |-> NoConn]
    /\ connRet = <<>>
    /\ IdleGate /\ IdleParse /\ IdleSel /\ IdleVal /\ IdleExec /\ IdleAct
    /\ IdleLife /\ IdleCall /\ IdleRace

ConnReturned(op, urn, value, resolved) ==
    /\ connRet' = << [op |-> op, urn |-> urn, value |-> value,
                      resolved |-> resolved] >>
    /\ UNCHANGED <<connector_configs, graph, catalog, environ,
                   gateVars, parseVars, selVars, actVars, lifeVars, callVars, raceVars, valVars, execVars>>

CallGetConnectionString ==
    \E urn \in ConnUrns :
        LET loaded == LoadIngestionSources(ingestion_source_cache, graph, catalog) IN
        /\ ingestion_source_cache' =
               IF LoadsSources(urn, connector_configs) THEN loaded.cache
               ELSE ingestion_source_cache
        /\ ConnReturned("get_connection_string", urn,
               GetConnectionString(urn, connector_configs, loaded.map, environ),
               ConnectionStringResolveCalls(urn, connector_configs, loaded.map))
        /\ UNCHANGED engines

\* get_engine; given: a connection_string argument is passed; created:
\* create_engine does not raise
CallGetEngine ==
    \E urn \in ConnUrns, how \in {"argument", "lookup", "lookup_fails"} :
        LET given == how = "argument"
            created == how # "lookup_fails"
            platform == ExtractPlatformFromUrn(urn)
            loaded == LoadIngestionSources(ingestion_source_cache, graph, catalog)
            conn_str == GetConnectionString(urn, connector_configs, loaded.map, environ)
        IN IF given
           THEN /\ ConnReturned("get_engine", urn,
                       IF created THEN Conn("argument", "", NoCfg) ELSE NoConn, <<>>)
                /\ UNCHANGED <<ingestion_source_cache, engines>>
           ELSE IF platform = ""
           THEN /\ ConnReturned("get_engine", urn, NoConn, <<>>)
                /\ UNCHANGED <<ingestion_source_cache, engines>>
           ELSE IF engines[platform] # NoConn
           THEN /\ ConnReturned("get_engine", urn, engines[platform], <<>>)
                /\ UNCHANGED <<ingestion_source_cache, engines>>
           ELSE /\ ingestion_source_cache' =
                       IF LoadsSources(urn, connector_configs) THEN loaded.cache
                       ELSE ingestion_source_cache
                /\ IF conn_str = NoConn \/ ~created
                   THEN /\ ConnReturned("get_engine", urn, NoConn,
                               ConnectionStringResolveCalls(urn, connector_configs,
                                                            loaded.map))
                        /\ UNCHANGED engines
                   ELSE /\ ConnReturned("get_engine", urn, conn_str,
                               ConnectionStringResolveCalls(urn, connector_configs,
                                                            loaded.map))
                        /\ engines' = [engines EXCEPT ![platform] = conn_str]

CallGetNativeConnection ==
    \E urn \in ConnUrns, how \in {"connects", "refused", "no_secrets"} :
        LET connects == how # "refused"
            secrets == IF how = "no_secrets" THEN "fails" ELSE "answers"
            parsed_key == ParseDatasetKeyLower(urn)
            loaded == LoadIngestionSources(ingestion_source_cache, graph, catalog)
        IN /\ ingestion_source_cache' =
                  IF parsed_key.platform # "" /\ parsed_key.key # <<>>
                  THEN loaded.cache ELSE ingestion_source_cache
           /\ ConnReturned("get_native_connection", urn,
                  GetNativeConnection(urn, loaded.map, connects, secrets),
                  NativeResolveCalls(urn, loaded.map, secrets))
           /\ UNCHANGED engines

NextConn == CallGetConnectionString \/ CallGetEngine \/ CallGetNativeConnection

(***************************************************************************)
(* SpecValidate: one validator, constructed and then executed              *)
(***************************************************************************)
InitValidate ==
    /\ val_type \in TEST_REGISTRY
    /\ val_column \in {"", "c"}
    /\ val_params \in ParamSets
    /\ val_profile \in Profiles
    /\ val_conn \in { [registry |-> FALSE, resolved |-> NoConn],
                       [registry |-> TRUE, resolved |-> NoConn],
                       [registry |-> TRUE, resolved |-> Conn("explicit", "snowflake", NoCfg)] }
    /\ val_stage = "new"
    /\ valRet = <<>>
    /\ IdleGate /\ IdleParse /\ IdleSel /\ IdleConn /\ IdleExec /\ IdleAct
    /\ IdleLife /\ IdleCall /\ IdleRace

\* test = test_class(test_name=..., dataset_urn=..., params=..., column=...)
CallConstruct ==
    /\ val_stage = "new"
    /\ val_stage' = IF Construct(val_type, val_column).raised
                    THEN "raised" ELSE "constructed"
    /\ valRet' = IF Construct(val_type, val_column).raised
                 THEN << Construct(val_type, val_column) >> ELSE <<>>
    /\ UNCHANGED <<val_type, val_column, val_params, val_profile, val_conn,
                   gateVars, parseVars, selVars, actVars, lifeVars, callVars, raceVars, connVars, execVars>>

\* result = test.execute(profile=profile), with or without a registry set
CallExecute ==
    /\ val_stage = "constructed"
    /\ \E db \in ValidatorDbs,
          equal \in { b \in BOOLEAN : b => val_type = "table_custom_sql" } :
          valRet' = << Execute(val_type, val_column, val_params, val_profile,
                               TemplateGetConnectionString(val_params, val_conn.registry,
                                                           val_conn.resolved),
                               db, equal) >>
    /\ val_stage' = "executed"
    /\ UNCHANGED <<val_type, val_column, val_params, val_profile, val_conn,
                   gateVars, parseVars, selVars, actVars, lifeVars, callVars, raceVars, connVars, execVars>>

NextValidate == CallConstruct \/ CallExecute

(***************************************************************************)
(* SpecExec: execute_tests_for_dataset, one step per pass of its loop      *)
(***************************************************************************)
InitExec ==
    /\ test_configs \in TestConfigLists
    /\ target_urn = EvalUrn
    /\ profile_source \in ProfileSources
    /\ has_registry \in BOOLEAN
    /\ connector_configs \in
           { [p \in UrnPlatforms |-> IF p = "snowflake" /\ set THEN "set" ELSE "absent"] :
               set \in { b \in BOOLEAN : b => has_registry } }
    /\ graph = "none" /\ catalog = <<>>
    /\ environ = [n \in { UpperName(p) : p \in UrnPlatforms } |-> FALSE]
    /\ ingestion_source_cache = <<>>
    /\ engines = [p \in UrnPlatforms |-> NoConn]
    /\ connRet = <<>>
    /\ pc = "idle" /\ matching_tests = <<>> /\ profile = <<>>
    /\ idx = 0 /\ mcps = <<>> /\ log = <<>> /\ profile_fetches = 0
    /\ IdleGate /\ IdleParse /\ IdleSel /\ IdleVal /\ IdleAct
    /\ IdleLife /\ IdleCall /\ IdleRace

\* execute_tests_for_dataset up to its loop: find the matching tests, return
\* at once when there is none, else retrieve the profile
StartExecute ==
    /\ pc = "idle"
    /\ matching_tests' = FindMatchingTests(test_configs, target_urn, 1)
    /\ IF matching_tests' = <<>>
       THEN pc' = "done" /\ profile' = profile /\ profile_fetches' = profile_fetches
       ELSE /\ pc' = "loop"
            /\ profile' = GetDatasetProfile(profile_source)
            /\ profile_fetches' = profile_fetches + 1
    /\ idx' = 1
    /\ UNCHANGED <<test_configs, target_urn, profile_source, has_registry, mcps, log,
                   gateVars, parseVars, selVars, actVars, lifeVars, callVars, raceVars, connVars, valVars>>

\* one pass of the loop: _execute_single_test on the next matching test
RunTest ==
    /\ pc = "loop" /\ idx <= Len(matching_tests)
    /\ LET test_config == test_configs[matching_tests[idx]]
           asks == AsksRegistry(test_config, has_registry)
           loaded == LoadIngestionSources(ingestion_source_cache, graph, catalog)
           resolved == GetConnectionString(target_urn, connector_configs, loaded.map, environ)
       IN \E db \in ValidatorDbs, built \in BOOLEAN,
             equal \in { b \in BOOLEAN : b => test_config.type = "table_custom_sql" } :
            LET single == ExecuteSingleTest(test_config, target_urn, profile, has_registry,
                                            resolved, db, equal, built)
                after == LoopBody(single, idx, mcps)
            IN /\ pc' = after.pc /\ idx' = after.idx /\ mcps' = after.mcps
               /\ log' = Append(log, [test |-> test_config.name, outcome |-> single.outcome,
                                        db |-> IF QueryBased(test_config.type)
                                               THEN <<db>> ELSE <<>>,
                                        equal |-> equal])
               /\ ingestion_source_cache' =
                      IF asks /\ LoadsSources(target_urn, connector_configs)
                      THEN loaded.cache ELSE ingestion_source_cache
               /\ connRet' = IF asks
                             THEN << [op |-> "get_connection_string", urn |-> target_urn,
                                      value |-> resolved] >>
                             ELSE connRet
    /\ UNCHANGED <<test_configs, target_urn, profile_source, has_registry,
                   matching_tests, profile, profile_fetches,
                   connector_configs, graph, catalog, environ,
                   engines, gateVars, parseVars, selVars, actVars, lifeVars, callVars, raceVars, valVars>>

\* the loop is over: return the records
ReturnMcps ==
    /\ pc = "loop" /\ idx > Len(matching_tests)
    /\ pc' = "done"
    /\ UNCHANGED <<test_configs, target_urn, profile_source, has_registry,
                   matching_tests, profile, idx, mcps, log, profile_fetches,
                   gateVars, parseVars, selVars, actVars, lifeVars, callVars, raceVars, connVars, valVars>>

NextExec == StartExecute \/ RunTest \/ ReturnMcps

(***************************************************************************)
(* SpecAct: one event handed to DataQualityAction.act                      *)
(***************************************************************************)
InitAct ==
    /\ act_enabled \in BOOLEAN
    /\ act_event \in ActEvents
    /\ act_executor \in ActExecutors
    /\ act_pc = "idle" /\ assertion_mcps = <<>> /\ act_idx = 0
    /\ emitted = <<>> /\ act_errors = <<>>
    /\ IdleGate /\ IdleParse /\ IdleSel /\ IdleConn /\ IdleVal /\ IdleExec
    /\ IdleLife /\ IdleCall /\ IdleRace

\* act up to the emit loop
ActStart ==
    /\ act_pc = "idle"
    /\ LET begun == ActBegin(act_enabled, act_event, act_executor) IN
       /\ act_pc' = begun.pc
       /\ assertion_mcps' = begun.mcps
       /\ act_errors' = begun.errors
    /\ act_idx' = 1
    /\ UNCHANGED <<act_enabled, act_event, act_executor, emitted,
                   gateVars, parseVars, selVars, connVars, valVars, execVars, lifeVars, callVars, raceVars>>

\* one pass of the emit loop
EmitOne ==
    /\ act_pc = "emit" /\ act_idx <= Len(assertion_mcps)
    /\ \E ok \in BOOLEAN :
          LET after == EmitBody(assertion_mcps[act_idx], ok, act_idx, emitted, act_errors) IN
          /\ act_pc' = after.pc /\ act_idx' = after.idx
          /\ emitted' = after.emitted /\ act_errors' = after.errors
    /\ UNCHANGED <<act_enabled, act_event, act_executor, assertion_mcps,
                   gateVars, parseVars, selVars, connVars, valVars, execVars, lifeVars, callVars, raceVars>>

\* the loop is over: act returns
ActReturn ==
    /\ act_pc = "emit" /\ act_idx > Len(assertion_mcps)
    /\ act_pc' = "done"
    /\ UNCHANGED <<act_enabled, act_event, act_executor, assertion_mcps, act_idx,
                   emitted, act_errors,
                   gateVars, parseVars, selVars, connVars, valVars, execVars, lifeVars, callVars, raceVars>>

NextAct == ActStart \/ EmitOne \/ ActReturn

(***************************************************************************)
(* SpecCall: one statement run against a database, second by second        *)
(***************************************************************************)
MaxTimeout == 1

NativePaths == {"execute_query", "_execute_snowflake_native", "_execute_single_assertion"}
CallPaths == NativePaths \cup {"table_custom_sql"}

\* a database: where it faults ("cursor": on opening a cursor or a
\* connection, "execute", "fetch", "none"), how long the statement runs and
\* the rows it returns
CallDbs ==
    { [raises |-> f # "none", columns |-> <<"a", "b">>, rows |-> rows,
       fault |-> f, duration |-> d] :
        f \in {"none", "cursor", "execute", "fetch"}, rows \in GateTables,
        d \in 0..(MaxTimeout + 1) }

Failure(error) == Ret(FALSE, FALSE, NoMetrics, error)

\* the operation up to cursor.execute / connection.execute: whether the
\* statement is sent, the native connections held and, when it is not sent,
\* what is returned
SqlBegin(path, s, native, engine, db) ==
    LET stop(ret, held) == [pc |-> "done", open |-> held, ret |-> <<ret>>]
        run(held) == [pc |-> "running", open |-> held, ret |-> <<>>]
    IN CASE path = "execute_query" ->
              IF ~IsReadonlySql(s) THEN stop(ExecuteQuery(s, TRUE, native, engine, db, 1), 0)
              ELSE IF native = "conn"
              THEN IF db.fault = "cursor" THEN stop(Failure("str(e)"), 1) ELSE run(1)
              ELSE IF engine = "none"
              THEN stop(ExecuteQuery(s, TRUE, native, engine, db, 1), 0)
              ELSE IF db.fault = "cursor" THEN stop(Failure("str(e)"), 0) ELSE run(0)
         [] path = "_execute_snowflake_native" ->
              IF native # "conn" THEN stop(ExecuteSnowflakeNative(s, native, db, 1), 0)
              ELSE IF db.fault = "cursor" THEN stop(Failure("str(e)"), 1) ELSE run(1)
         [] path = "_execute_single_assertion" ->
              IF native # "conn" THEN stop(ExecuteSingleAssertion(s, native, db, TRUE), 0)
              ELSE IF db.fault = "cursor"
              THEN stop(Failure("SQL execution failed"), 0)   \* finally: close
              ELSE run(1)
         [] OTHER ->
              IF engine = "none" \/ db.fault = "cursor"
              THEN stop(CustomSqlExecute(s, engine # "none", TRUE, db, TRUE), 0)
              ELSE run(0)

\* the operation from the return of cursor.execute on: the rows fetched, the
\* native connections still held and what is returned
SqlEnd(path, s, db, limit, held) ==
    LET rows == IF db.raises THEN 0 ELSE Len(db.rows)
        first == Min(rows, 1)
    IN CASE path \in {"execute_query", "_execute_snowflake_native"} ->
              [fetched |-> rows, open |-> IF db.raises THEN held ELSE 0,
               ret |-> <<Fetched(db, limit)>>]
         [] path = "_execute_single_assertion" ->
              [fetched |-> first, open |-> 0,
               ret |-> <<ExecuteSingleAssertion(s, "conn", db, TRUE)>>]
         [] OTHER ->
              [fetched |-> first, open |-> held,
               ret |-> <<CustomSqlExecute(s, TRUE, TRUE, db, TRUE)>>]

InitCall ==
    /\ call_path \in CallPaths
    /\ call_sql \in { KwSelect, <<"D", "R", "O", "P">> }
    /\ call_native \in {"conn", "none", "raise"}
    /\ call_engine \in {"engine", "none"}
    /\ call_db \in CallDbs
    /\ call_limit \in {1, DefaultRowLimit}
    /\ call_timeout \in 1..MaxTimeout
    /\ call_pc = "idle" /\ elapsed = 0 /\ open_native = 0 /\ fetched_rows = 0
    /\ callRet = <<>>
    /\ IdleGate /\ IdleParse /\ IdleSel /\ IdleConn /\ IdleVal /\ IdleExec /\ IdleAct
    /\ IdleLife /\ IdleRace

SqlStart ==
    /\ call_pc = "idle"
    /\ LET begun == SqlBegin(call_path, call_sql, call_native, call_engine, call_db) IN
       /\ call_pc' = begun.pc
       /\ open_native' = begun.open
       /\ callRet' = begun.ret
    /\ UNCHANGED <<call_path, call_sql, call_native, call_engine, call_db, call_limit,
                   call_timeout, elapsed, fetched_rows,
                   gateVars, parseVars, selVars, connVars, valVars, execVars, actVars,
                   lifeVars, raceVars>>

\* a second passes while the database works on the statement; nothing in
\* the operation looks at the clock
SqlTick ==
    /\ call_pc = "running" /\ elapsed < call_db.duration
    /\ elapsed' = elapsed + 1
    /\ UNCHANGED <<call_path, call_sql, call_native, call_engine, call_db, call_limit,
                   call_timeout, call_pc, open_native, fetched_rows, callRet,
                   gateVars, parseVars, selVars, connVars, valVars, execVars, actVars,
                   lifeVars, raceVars>>

SqlFinish ==
    /\ call_pc = "running" /\ elapsed = call_db.duration
    /\ LET ended == SqlEnd(call_path, call_sql, call_db, call_limit, open_native) IN
       /\ fetched_rows' = ended.fetched
       /\ open_native' = ended.open
       /\ callRet' = ended.ret
    /\ call_pc' = "done"
    /\ UNCHANGED <<call_path, call_sql, call_native, call_engine, call_db, call_limit,
                   call_timeout, elapsed,
                   gateVars, parseVars, selVars, connVars, valVars, execVars, actVars,
                   lifeVars, raceVars>>

NextCall == SqlStart \/ SqlTick \/ SqlFinish

(***************************************************************************)
(* SpecLife: one registry over its lifetime                                *)
(***************************************************************************)
MaxEngines == 2
MaxQueries == 2

LifePlatforms == {"snowflake", "oracle"}
LifeUrns == { Urn(p, <<"sales", "public", "orders">>) : p \in LifePlatforms } \cup {BadUrn}

\* the datasets get_engine is asked for: two of them on one platform
EngineUrns == LifeUrns \cup { Urn("snowflake", <<"finance", "public", "orders">>) }

\* what DataHub holds: nothing, or sources without a recipe, without a type,
\* with a recipe that does not parse or holds no source config, and two
\* usable ones of one platform
LifeCatalogs ==
    { <<>>,
      << RawSource("snowflake", "none",
                   Cfg("acct", "inst", AcceptAll, AcceptAll, AcceptAll, FALSE, TRUE)),
         RawSource("", "ok",
                   Cfg("", "", AcceptAll, AcceptAll, AcceptAll, FALSE, TRUE)),
         RawSource("snowflake", "badjson",
                   Cfg("", "", AcceptAll, AcceptAll, AcceptAll, FALSE, TRUE)),
         RawSource("oracle", "noconfig",
                   Cfg("", "", AcceptAll, AcceptAll, AcceptAll, FALSE, TRUE)),
         RawSource("SNOWFLAKE", "ok",
                   Cfg("acct", "", Pattern({ <<"sales">> }, {}), AcceptAll, AcceptAll,
                       FALSE, TRUE)),
         RawSource("snowflake", "ok",
                   Cfg("", "inst", AcceptAll, AcceptAll, AcceptAll, FALSE, TRUE)) >> }

InitLife ==
    /\ connector_configs \in
           { [p \in UrnPlatforms |-> IF p = "snowflake" THEN v ELSE "absent"] :
               v \in {"absent", "set"} }
    /\ graph \in {"none", "up"}
    /\ catalog \in LifeCatalogs
    /\ graph = "none" => catalog = <<>>
    /\ environ = [n \in { UpperName(p) : p \in UrnPlatforms } |-> n = "SNOWFLAKE"]
    /\ ingestion_source_cache = <<>>
    /\ engines = [p \in UrnPlatforms |-> NoEngine]
    /\ connRet = <<>>
    /\ sf_connections = <<>> /\ made = 0 /\ disposed = <<>>
    /\ queries = [count |-> 0, last |-> "none"]
    /\ IdleGate /\ IdleParse /\ IdleSel /\ IdleVal /\ IdleExec /\ IdleAct
    /\ IdleCall /\ IdleRace

\* what the client does when the catalog is queried in this call
QueryOutcomes == IF graph = "none" THEN {"none"} ELSE {"up", "down", "null"}

\* _load_ingestion_sources called (or not) within a call: the cache and the
\* count of catalog queries afterwards
\* mutant: a failed fetch is cached as an empty map
LoadsCachingFailure(reaches, outcome) ==
    LET loaded == LoadIngestionSources(ingestion_source_cache, outcome, catalog)
        asks == reaches /\ ingestion_source_cache = <<>> /\ graph # "none"
    IN /\ asks => queries.count < MaxQueries
       /\ ingestion_source_cache' =
              IF asks /\ loaded.cache = <<>> THEN <<EmptyMap>>
              ELSE IF reaches THEN loaded.cache ELSE ingestion_source_cache
       /\ queries' = IF asks THEN [count |-> queries.count + 1, last |-> outcome]
                     ELSE queries

Loads(reaches, outcome) ==
    LET loaded == LoadIngestionSources(ingestion_source_cache, outcome, catalog)
        asks == reaches /\ ingestion_source_cache = <<>> /\ graph # "none"
    IN /\ asks => queries.count < MaxQueries
       /\ ingestion_source_cache' = IF reaches THEN loaded.cache ELSE ingestion_source_cache
       /\ queries' = IF asks THEN [count |-> queries.count + 1, last |-> outcome]
                     ELSE queries

LifeReturned(op, urn, value, reaches, outcome, built) ==
    /\ connRet' = << [op |-> op, urn |-> urn, value |-> value, loaded |-> reaches,
                      made |-> built] >>
    /\ UNCHANGED <<graph, catalog, environ, sf_connections,
                   gateVars, parseVars, selVars, actVars, valVars, execVars,
                   callVars, raceVars>>

LifeGetConnectionString ==
    \E urn \in LifeUrns, outcome \in QueryOutcomes :
        LET reaches == LoadsSources(urn, connector_configs)
            loaded == LoadIngestionSources(ingestion_source_cache, outcome, catalog) IN
        /\ Loads(reaches, outcome)
        /\ LifeReturned("get_connection_string", urn,
               GetConnectionString(urn, connector_configs, loaded.map, environ),
               reaches, outcome, FALSE)
        /\ UNCHANGED <<connector_configs, engines, made, disposed>>

LifeGetNativeConnection ==
    \E urn \in LifeUrns, outcome \in QueryOutcomes :
        LET parsed_key == ParseDatasetKeyLower(urn)
            reaches == parsed_key.platform # "" /\ parsed_key.key # <<>>
            loaded == LoadIngestionSources(ingestion_source_cache, outcome, catalog) IN
        /\ Loads(reaches, outcome)
        /\ LifeReturned("get_native_connection", urn,
               GetNativeConnection(urn, loaded.map, TRUE, "answers"),
               reaches, outcome, FALSE)
        /\ UNCHANGED <<connector_configs, engines, made, disposed>>

\* get_engine(dataset_urn): no connection_string argument
LifeGetEngine ==
    \E urn \in EngineUrns, outcome \in QueryOutcomes, created \in BOOLEAN :
        LET reaches == EngineLooksUp(urn, engines) /\ LoadsSources(urn, connector_configs)
            loaded == LoadIngestionSources(ingestion_source_cache, outcome, catalog)
            conn_str == GetConnectionString(urn, connector_configs, loaded.map, environ)
            got == GetEngine(urn, engines, conn_str, created, made + 1)
        IN /\ made < MaxEngines
           /\ Loads(reaches, outcome)
           /\ engines' = got.engines
           /\ made' = IF got.made THEN made + 1 ELSE made
           /\ disposed' = IF got.made THEN Append(disposed, 0) ELSE disposed
           /\ LifeReturned("get_engine", urn, got.value, reaches, outcome, got.made)
           /\ UNCHANGED connector_configs

LifeRegisterConnector ==
    \E platform \in LifePlatforms, connection_string \in {"empty", "registered"} :
        /\ platform = "oracle" => connection_string = "registered"
        /\ LET after == RegisterConnector(platform, connection_string,
                                          connector_configs, engines) IN
           /\ connector_configs' = after.configs
           /\ engines' = after.engines
        /\ connRet' = << [op |-> "register_connector", urn |-> Urn(platform, <<>>),
                          value |-> NoEngine, loaded |-> FALSE, made |-> FALSE,
                          connection_string |-> connection_string] >>
        /\ UNCHANGED <<graph, catalog, environ, ingestion_source_cache, lifeVars,
                       gateVars, parseVars, selVars, actVars, valVars, execVars,
                       callVars, raceVars>>

\* close_all, called directly or by __exit__
LifeCloseAll ==
    \E via \in {"close_all", "__exit__"},
       faulty \in SUBSET { engines[p].id : p \in { q \in DOMAIN engines : engines[q] # NoEngine } } :
        LET after == CloseAll(engines, sf_connections, disposed, faulty) IN
        /\ engines' = after.engines
        /\ sf_connections' = after.natives
        /\ disposed' = after.counts
        /\ connRet' = << [op |-> via, urn |-> BadUrn,
                          value |-> NoEngine, loaded |-> FALSE, made |-> FALSE,
                          raised |-> after.raised, failed |-> faulty] >>
        /\ UNCHANGED <<connector_configs, graph, catalog, environ,
                       ingestion_source_cache, made, queries,
                       gateVars, parseVars, selVars, actVars, valVars, execVars,
                       callVars, raceVars>>

NextLife ==
    \/ LifeGetConnectionString \/ LifeGetNativeConnection \/ LifeGetEngine
    \/ LifeRegisterConnector \/ LifeCloseAll

(***************************************************************************)
(* SpecRace: two threads on one registry, one platform.  A thread switch   *)
(* can fall between any two reads or writes of the registry's fields.      *)
(***************************************************************************)
MaxRaceOps == 2

Threads == {1, 2}
RaceOps == {"get_engine", "register_connector", "close_all", "_load_ingestion_sources"}

\* self._engines restricted to the one platform, as the dict stores it: the
\* entries in insertion order, 0 for an entry that was deleted
InEngines(entries) == \E i \in 1..Len(entries) : entries[i] # 0
Used(entries) == IF InEngines(entries) THEN 1 ELSE 0
Cached(entries) ==
    IF InEngines(entries)
    THEN entries[CHOOSE i \in 1..Len(entries) : entries[i] # 0]
    ELSE 0
\* self._engines[platform] = engine
SetItem(entries, engine) ==
    IF InEngines(entries)
    THEN [i \in 1..Len(entries) |-> IF entries[i] # 0 THEN engine ELSE 0]
    ELSE Append(entries, engine)
\* del self._engines[platform]
DelItem(entries) == [i \in 1..Len(entries) |-> 0]
\* the entry the iterator of self._engines.items() yields after position pos
NextItem(entries, pos) ==
    IF \E i \in (pos + 1)..Len(entries) : entries[i] # 0
    THEN CHOOSE i \in (pos + 1)..Len(entries) :
            entries[i] # 0 /\ \A j \in (pos + 1)..(i - 1) : entries[j] = 0
    ELSE 0

Thread(at, engine, used, pos, left) ==
    [pc |-> at, engine |-> engine, used |-> used, pos |-> pos, left |-> left]
At(t, label) == race_pc[t].pc = label
Goto(t, label) == race_pc' = [race_pc EXCEPT ![t].pc = label]
Raise(op, error) == race_raised' = race_raised \cup {<<op, error>>}

InitRace ==
    /\ race_pc = [t \in Threads |-> Thread("idle", 0, 0, 0, MaxRaceOps)]
    /\ race_entries = <<>> /\ race_made = 0 /\ race_disposed = {}
    /\ race_sources = "none" /\ race_queries = 0 /\ race_ops = {} /\ race_raised = {}
    /\ IdleGate /\ IdleParse /\ IdleSel /\ IdleConn /\ IdleVal /\ IdleExec /\ IdleAct
    /\ IdleLife /\ IdleCall

RaceRest == <<gateVars, parseVars, selVars, connVars, valVars, execVars, actVars,
              lifeVars, callVars>>

\* a thread calls an operation of the registry
RaceCall(t) ==
    /\ At(t, "idle") /\ race_pc[t].left > 0
    /\ \E op \in RaceOps :
        /\ race_pc' = [race_pc EXCEPT ![t] =
               Thread(op, 0, 0, 0, race_pc[t].left - 1)]
        /\ race_ops' = race_ops \cup {op}
    /\ UNCHANGED <<race_entries, race_made, race_disposed, race_sources, race_queries,
                   race_raised, RaceRest>>

\* get_engine: if platform in self._engines
GetEngineCheck(t) ==
    /\ At(t, "get_engine")
    /\ Goto(t, IF InEngines(race_entries) THEN "get_engine.read" ELSE "get_engine.load")
    /\ UNCHANGED <<race_entries, race_made, race_disposed, race_sources, race_queries,
                   race_ops, race_raised, RaceRest>>

\* get_engine: return self._engines[platform]
GetEngineRead(t) ==
    /\ At(t, "get_engine.read")
    /\ Goto(t, "idle")
    /\ IF InEngines(race_entries)
       THEN UNCHANGED race_raised
       ELSE Raise("get_engine", "KeyError")
    /\ UNCHANGED <<race_entries, race_made, race_disposed, race_sources, race_queries,
                   race_ops, RaceRest>>

\* _load_ingestion_sources: if self._ingestion_source_cache is not None
LoadCheck(t) ==
    /\ \/ At(t, "get_engine.load") /\ Goto(t, IF race_sources = "none"
                                               THEN "get_engine.query"
                                               ELSE "get_engine.create")
       \/ At(t, "_load_ingestion_sources")
            /\ Goto(t, IF race_sources = "none" THEN "query" ELSE "idle")
    /\ UNCHANGED <<race_entries, race_made, race_disposed, race_sources, race_queries,
                   race_ops, race_raised, RaceRest>>

\* _load_ingestion_sources: the catalog query and
\* self._ingestion_source_cache = sources_by_platform
LoadQuery(t) ==
    /\ \/ At(t, "get_engine.query") /\ Goto(t, "get_engine.create")
       \/ At(t, "query") /\ Goto(t, "idle")
    /\ race_queries' = race_queries + 1
    /\ race_sources' = "list"
    /\ UNCHANGED <<race_entries, race_made, race_disposed, race_ops, race_raised,
                   RaceRest>>

\* get_engine: engine = create_engine(conn_str)
GetEngineCreate(t) ==
    /\ At(t, "get_engine.create")
    /\ race_made' = race_made + 1
    /\ race_pc' = [race_pc EXCEPT ![t].pc = "get_engine.store", ![t].engine = race_made + 1]
    /\ UNCHANGED <<race_entries, race_disposed, race_sources, race_queries, race_ops,
                   race_raised, RaceRest>>

\* get_engine: self._engines[platform] = engine; return engine
GetEngineStore(t) ==
    /\ At(t, "get_engine.store")
    /\ race_entries' = SetItem(race_entries, race_pc[t].engine)
    /\ race_pc' = [race_pc EXCEPT ![t].pc = "idle", ![t].engine = 0]
    /\ UNCHANGED <<race_made, race_disposed, race_sources, race_queries, race_ops,
                   race_raised, RaceRest>>

\* register_connector: self._connector_configs[platform] = ...;
\* if platform in self._engines
RegisterCheck(t) ==
    /\ At(t, "register_connector")
    /\ Goto(t, IF InEngines(race_entries) THEN "register_connector.del" ELSE "idle")
    /\ UNCHANGED <<race_entries, race_made, race_disposed, race_sources, race_queries,
                   race_ops, race_raised, RaceRest>>

\* register_connector: del self._engines[platform]
RegisterDel(t) ==
    /\ At(t, "register_connector.del")
    /\ Goto(t, "idle")
    /\ IF InEngines(race_entries)
       THEN race_entries' = DelItem(race_entries) /\ UNCHANGED race_raised
       ELSE Raise("register_connector", "KeyError") /\ UNCHANGED race_entries
    /\ UNCHANGED <<race_made, race_disposed, race_sources, race_queries, race_ops,
                   RaceRest>>

\* close_all: the iterator of self._engines.items() is created
CloseAllIter(t) ==
    /\ At(t, "close_all")
    /\ race_pc' = [race_pc EXCEPT ![t].pc = "close_all.next",
                                  ![t].used = Used(race_entries), ![t].pos = 0]
    /\ UNCHANGED <<race_entries, race_made, race_disposed, race_sources, race_queries,
                   race_ops, race_raised, RaceRest>>

\* close_all: the iterator is advanced (it raises RuntimeError when the
\* dict changed size since the iterator was created) and the engine it
\* yields is disposed
CloseAllNext(t) ==
    /\ At(t, "close_all.next")
    /\ IF Used(race_entries) # race_pc[t].used
       THEN /\ Raise("close_all", "RuntimeError")
            /\ race_pc' = [race_pc EXCEPT ![t].pc = "idle", ![t].used = 0, ![t].pos = 0]
            /\ UNCHANGED race_disposed
       ELSE LET i == NextItem(race_entries, race_pc[t].pos) IN
            IF i = 0
            THEN /\ race_pc' = [race_pc EXCEPT ![t].pc = "close_all.clear",
                                               ![t].used = 0, ![t].pos = 0]
                 /\ UNCHANGED <<race_disposed, race_raised>>
            ELSE /\ race_disposed' = race_disposed \cup {race_entries[i]}
                 /\ race_pc' = [race_pc EXCEPT ![t].pos = i]
                 /\ UNCHANGED race_raised
    /\ UNCHANGED <<race_entries, race_made, race_sources, race_queries, race_ops,
                   RaceRest>>

\* close_all: self._engines.clear()
CloseAllClear(t) ==
    /\ At(t, "close_all.clear")
    /\ race_entries' = <<>>
    /\ Goto(t, "idle")
    /\ UNCHANGED <<race_made, race_disposed, race_sources, race_queries, race_ops,
                   race_raised, RaceRest>>

NextRace ==
    \E t \in Threads :
        \/ RaceCall(t)
        \/ GetEngineCheck(t) \/ GetEngineRead(t) \/ LoadCheck(t) \/ LoadQuery(t)
        \/ GetEngineCreate(t) \/ GetEngineStore(t)
        \/ RegisterCheck(t) \/ RegisterDel(t)
        \/ CloseAllIter(t) \/ CloseAllNext(t) \/ CloseAllClear(t)

vars == <<gateVars, parseVars, selVars, connVars, valVars, execVars, actVars,
          lifeVars, callVars, raceVars>>

SpecParse == InitParse /\ [][NextParse]_vars
SpecGate  == InitGate /\ [][NextGate]_vars
SpecSelect == InitSelect /\ [][NextSelect]_vars
SpecConn  == InitConn /\ [][NextConn]_vars
SpecValidate == InitValidate /\ [][NextValidate]_vars
SpecCall  == InitCall /\ [][NextCall]_vars
SpecRace  == InitRace /\ [][NextRace]_vars
SpecLife  == InitLife /\ [][NextLife]_vars
SpecAct   == InitAct /\ [][NextAct]_vars
SpecExec  == InitExec /\ [][NextExec]_vars

(***************************************************************************)
(* Claims                                                                  *)
(***************************************************************************)
\* the SQL paths that run configured or user-supplied SQL
SqlPaths == {"execute_query", "_execute_snowflake_native", "_execute_sql", "table_custom_sql"}

\* C1 (as claimed): on every SQL execution path a statement that the
\* read-only check rejects is never passed to a cursor or connection.
C1_RejectedNeverReachesDb ==
    (gatePath \in SqlPaths /\ gateReached) => IsReadonlySql(sql)

\* two characters are the same letter, whatever their case
SameLetter(c, d) ==
    c = d \/ \E i \in DOMAIN LowerChars : {c, d} = {LowerChars[i], UpperChars[i]}

\* word stands in s right after the first `off` characters, in any case
StandsAt(s, off, word) ==
    /\ Len(s) >= off + Len(word)
    /\ \A i \in 1..Len(word) : SameLetter(s[off + i], word[i])

Mentions(s, word) == \E off \in 0..Len(s) : StandsAt(s, off, word)

ForbiddenWords == { forbidden[k] : k \in DOMAIN forbidden }

\* C7 (as claimed): _is_readonly_sql is true exactly when the statement,
\* case-insensitively, begins with SELECT or WITH and nowhere contains one
\* of the ten forbidden keywords.
C7_BeginsWithSelectOrWith ==
    gatePath = "_is_readonly_sql" =>
        (gateRet[1].passed <=>
            /\ StandsAt(sql, 0, KwSelect) \/ StandsAt(sql, 0, KwWith)
            /\ \A w \in ForbiddenWords : ~Mentions(sql, w))

\* C7 (amended): _is_readonly_sql is true exactly when the statement, after
\* its leading whitespace and case-insensitively, begins with SELECT or WITH
\* and nowhere contains one of the ten forbidden keywords; the five example
\* statements are accepted and rejected as listed.
C7_ReadonlyAfterStrip ==
    gatePath = "_is_readonly_sql" =>
        /\ gateRet[1].passed <=>
            /\ \E off \in 0..Len(sql) :
                  /\ \A i \in 1..off : sql[i] \in Whitespace
                  /\ StandsAt(sql, off, KwSelect) \/ StandsAt(sql, off, KwWith)
            /\ \A w \in ForbiddenWords : ~Mentions(sql, w)
        /\ sql = <<"S","E","L","E","C","T"," ","1">> => gateRet[1].passed
        /\ sql = <<"s","e","l","e","c","t"," ","*"," ","f","r","o","m"," ","t">>
              => gateRet[1].passed
        /\ sql = <<"D","R","O","P"," ","T","A","B","L","E"," ","t">>
              => ~gateRet[1].passed
        /\ sql = <<"U","P","D","A","T","E"," ","t"," ","S","E","T"," ","x","=","1">>
              => ~gateRet[1].passed
        /\ sql = <<"S","E","L","E","C","T"," ","*"," ","F","R","O","M"," ","t",
                   ";"," ","D","E","L","E","T","E"," ","F","R","O","M"," ","t">>
              => ~gateRet[1].passed

\* C7 witness: the gate has accepted a statement that starts with whitespace
C7_Witness ==
    /\ gatePath = "_is_readonly_sql"
    /\ gateRet[1].passed
    /\ sql # <<>> /\ sql[1] \in Whitespace

\* C10: a list of rows that is not one row of one column passes exactly when
\* it has no rows (zero rows report row_count 0); an unrecognized result
\* passes with the raw value stringified; the parser never raises.
C10_RowsMeanViolations ==
    parsed # <<>> =>
        /\ ~parsed[1].raised
        /\ (result.t = "list" /\ ~(Len(result.rows) = 1 /\ Len(result.rows[1]) = 1)) =>
              /\ parsed[1].passed <=> (Len(result.rows) = 0)
              /\ Len(result.rows) = 0 =>
                    /\ "row_count" \in parsed[1].metrics.keys
                    /\ parsed[1].metrics.row_count = 0
        /\ result.t = "unknown" =>
              /\ parsed[1].passed
              /\ "raw_result" \in parsed[1].metrics.keys

\* C10 witness: one row of two columns has been parsed and failed
C10_Witness ==
    /\ parsed # <<>>
    /\ result.t = "list"
    /\ Len(result.rows) = 1 /\ Len(result.rows[1]) = 2
    /\ ~parsed[1].passed

(***************************************************************************)
(* Connection resolution                                                   *)
(***************************************************************************)
\* the sources the registry sees for a platform once a call has returned
VisibleSources(platform) ==
    IF ingestion_source_cache = <<>> THEN <<>>
    ELSE SourcesOf(ingestion_source_cache[1], platform)

\* what the catalog tier yields for a platform: the string built from its
\* first source, nothing when there is no source or none can be built
CatalogTier(platform) ==
    IF VisibleSources(platform) = <<>> THEN NoConn
    ELSE BuildConnectionStringFromIngestionConfig(
             platform, VisibleSources(platform)[1].config)

\* C3: get_connection_string resolves in strict priority order - explicit
\* config, then the catalog, then the environment variable - consulting a
\* later tier whenever the earlier ones produced nothing, also when a catalog
\* source exists but no connection string can be built from it; it returns
\* nothing only when all three tiers produce nothing.
C3_StrictPriority ==
    \A i \in DOMAIN connRet :
        LET r == connRet[i]
            platform == r.urn.platform
        IN (r.op = "get_connection_string" /\ r.urn.marked /\ platform # "") =>
              r.value =
                 IF connector_configs[platform] = "set"
                 THEN Conn("explicit", platform, NoCfg)
                 ELSE IF CatalogTier(platform) # NoConn THEN CatalogTier(platform)
                 ELSE IF environ[UpperName(platform)]
                 THEN Conn("env", UpperName(platform), NoCfg)
                 ELSE NoConn

\* the source _select_best_source picks for the URN among the visible
\* sources; the configs of the catalog hold no secret reference
SelectedFor(urn) ==
    SelectBestSource(LowerName(urn.platform), ParseDatasetKey(urn).key,
                     VisibleSources(LowerName(urn.platform)), "answers")

\* C4 as stated: with no override and several catalog sources for the
\* platform, the connection string of get_connection_string and get_engine is
\* built from the source _select_best_source selects, never from another.
C4_BuiltFromSelectedSource ==
    \A i \in DOMAIN connRet :
        LET r == connRet[i]
            sources == VisibleSources(r.urn.platform)
        IN (/\ r.op \in {"get_connection_string", "get_engine"}
            /\ r.value.from = "catalog"
            /\ Len(sources) >= 2
            /\ SelectedFor(r.urn) # 0)
           => r.value.config = sources[SelectedFor(r.urn)].config

\* C4 as the code has it: the connection string of get_connection_string and
\* get_engine is built from the first catalog source of the platform, selected
\* or not; only get_native_connection connects to the selected source.
C4_BuiltFromFirstSource ==
    \A i \in DOMAIN connRet :
        LET r == connRet[i] IN
        /\ (r.op \in {"get_connection_string", "get_engine"} /\ r.value.from = "catalog")
              => r.value.config = VisibleSources(r.urn.platform)[1].config
        /\ (r.op = "get_native_connection" /\ r.value # NoConn)
              => /\ SelectedFor(r.urn) # 0
                 /\ r.value.config =
                       VisibleSources(LowerName(r.urn.platform))[SelectedFor(r.urn)].config

\* a connection string was built from the catalog although the matching
\* selects a later source
C4_Witness ==
    \E i \in DOMAIN connRet :
        /\ connRet[i].op = "get_connection_string"
        /\ connRet[i].value.from = "catalog"
        /\ Len(VisibleSources(connRet[i].urn.platform)) >= 2
        /\ SelectedFor(connRet[i].urn) > 1

(***************************************************************************)
(* Source selection                                                        *)
(***************************************************************************)
\* candidate i matches the dataset of the call
CandidateMatches(i, secrets) ==
    /\ sel_platform = "snowflake"
    /\ SnowflakeSourceMatchesDataset(ParseDatasetKey(dataset_urn).key,
                                     candidates[i].config, secrets)

\* the score as the claim words it
ClaimedScore(cfg) ==
    (IF cfg.account_id # "" THEN 2 ELSE 0)
      + (IF cfg.platform_instance # "" THEN 1 ELSE 0)
      + Cardinality({ level \in {"database_pattern", "schema_pattern", "table_pattern"} :
                        cfg[level].present })

\* C5: _select_best_source returns None exactly when no candidate matches;
\* otherwise it returns a matching candidate of maximal score, and among
\* candidates of equal maximal score the one listed first.
C5_BestMatchingSource ==
    \A k \in DOMAIN selRet :
        LET r == selRet[k]
            matching == { i \in 1..Len(candidates) : CandidateMatches(i, r.secrets) }
        IN r.op = "select" =>
              /\ r.at = 0 <=> matching = {}
              /\ r.at # 0 =>
                    /\ r.at \in matching
                    /\ \A j \in matching :
                          /\ ClaimedScore(candidates[j].config)
                                <= ClaimedScore(candidates[r.at].config)
                          /\ ClaimedScore(candidates[j].config)
                                = ClaimedScore(candidates[r.at].config) => r.at <= j

\* a selection among a lower-scored match and a later match of equal score
C5_Witness ==
    \E k \in DOMAIN selRet :
        /\ selRet[k].op = "select" /\ selRet[k].at # 0
        /\ \E j \in 1..Len(candidates) :
              /\ j > selRet[k].at /\ CandidateMatches(j, selRet[k].secrets)
              /\ ClaimedScore(candidates[j].config)
                    = ClaimedScore(candidates[selRet[k].at].config)

\* a pattern level accepts a component: no pattern configured, or allowed
LevelAccepts(p, target) == ~p.present \/ Allowed(p, target)

\* every configured level of cfg accepts the last three components of name
LevelsAccept(cfg, name) ==
    LET n == Len(name)
        db == name[n - 2]
        schema == name[n - 1]
        table == name[n]
    IN /\ LevelAccepts(cfg.database_pattern, <<db>>)
       /\ LevelAccepts(cfg.schema_pattern,
                       IF cfg.match_fully_qualified_names
                       THEN <<db, schema>> ELSE <<schema>>)
       /\ LevelAccepts(cfg.table_pattern, <<db, schema, table>>)

NoLevelConfigured(cfg) ==
    /\ ~cfg.database_pattern.present
    /\ ~cfg.schema_pattern.present
    /\ ~cfg.table_pattern.present

\* the candidate of the claim's example: database [sales], schema [*], table [*]
ExampleCfg ==
    Cfg("", "", Pattern({ <<"sales">> }, {}), Pattern({ <<"*">> }, {}),
        Pattern({ <<"*">> }, {}), FALSE, TRUE)

\* C6 as stated: a candidate matches exactly when every configured pattern
\* level accepts its component of the trailing (database, schema, table); a
\* candidate with no pattern configured therefore matches every dataset.
C6_MatchesWhenLevelsAccept ==
    \A k \in DOMAIN selRet :
        LET r == selRet[k]
            cfg == ResolveSecrets(candidates[r.at].config, r.secrets)
            name == dataset_urn.name
        IN r.op = "matches" =>
              /\ Len(name) >= 3 => (r.value <=> LevelsAccept(cfg, name))
              /\ (Len(name) < 3 /\ NoLevelConfigured(cfg)) => r.value

\* C6 as the code has it: a candidate matches exactly when its configuration
\* parses, the dataset name has at least three components and every
\* configured level accepts its component of the last three; components
\* before the last three never matter.
C6_MatchesOnTrailingThree ==
    \A k \in DOMAIN selRet :
        LET r == selRet[k]
            cfg == ResolveSecrets(candidates[r.at].config, r.secrets)
            name == dataset_urn.name
        IN r.op = "matches" =>
              /\ r.value <=> (cfg.valid /\ Len(name) >= 3 /\ LevelsAccept(cfg, name))
              /\ (cfg = ExampleCfg /\ Len(name) >= 3
                     /\ Suffix(name, 3) = <<"sales", "public", "orders">>) => r.value
              /\ (cfg = ExampleCfg /\ Len(name) >= 3
                     /\ Suffix(name, 3) = <<"finance", "public", "orders">>) => ~r.value

\* the example candidate matched a name of more than three components whose
\* leading component its database pattern would reject
C6_Witness ==
    \E k \in DOMAIN selRet :
        /\ selRet[k].op = "matches" /\ selRet[k].value
        /\ candidates[selRet[k].at].config = ExampleCfg
        /\ Len(dataset_urn.name) > 3
        /\ dataset_urn.name[1] # "sales"

(***************************************************************************)
(* Validators and the batch of tests                                       *)
(***************************************************************************)
\* the test of a log entry faulted
Faulted(entry) == entry.outcome \in {"constructor", "execute", "build"}
Completed(entry) == entry.outcome = "completed"

\* C2: execute_tests_for_dataset yields a result record for each matched test
\* even when one of them faults in its constructor, in execute or while its
\* records are built: the faulting test is represented by a record with
\* success=false and an error reason, never by a missing record.
C2_RecordForEveryMatchedTest ==
    pc = "done" =>
       \A k \in 1..Len(matching_tests) :
          LET test_config == test_configs[matching_tests[k]] IN
          test_config.type \in TEST_REGISTRY =>
             \E j \in 1..Len(mcps) :
                /\ mcps[j].entityUrn = AssertionUrn(test_config, target_urn)
                /\ mcps[j].result # <<>>
                /\ Faulted(log[k]) =>
                      /\ ~mcps[j].result[1].success
                      /\ mcps[j].result[1].error # ""

\* C8: a fault raised by one matched test never aborts the batch and never
\* leaves execute_tests_for_dataset: the matched tests are run one after the
\* other in configuration order, all of them by the time the call returns,
\* and the records collected are those of the tests that completed, in order.
C8_FaultNeverAborts ==
    LET done == SelectSeq(log, Completed) IN
    /\ pc # "raised"
    /\ pc = "loop" => Len(log) = idx - 1
    /\ pc = "done" => Len(log) = Len(matching_tests)
    /\ \A k \in 1..Len(log) : log[k].test = test_configs[matching_tests[k]].name
    /\ \A k \in 1..(Len(matching_tests) - 1) : matching_tests[k] < matching_tests[k + 1]
    /\ Len(mcps) = 2 * Len(done)
    /\ \A k \in 1..Len(done) :
          /\ mcps[2 * k - 1].aspectName = "assertionInfo"
          /\ mcps[2 * k - 1].test_name = done[k].test
          /\ mcps[2 * k].aspectName = "assertionRunEvent"
          /\ mcps[2 * k].entityUrn = mcps[2 * k - 1].entityUrn

\* the call returned after a test completed, the next one faulted and the one
\* after that completed
C8_Witness ==
    /\ pc = "done"
    /\ \E k \in 1..(Len(log) - 2) :
          Completed(log[k]) /\ Faulted(log[k + 1]) /\ Completed(log[k + 2])

\* the required inputs a validator may lack
LacksProfile == val_type \in TableTypes \cup ColumnProfileTypes /\ val_profile = <<>>
LacksConnection ==
    /\ val_type \in ColumnQueryTypes \cup {"table_custom_sql"}
    /\ ~TemplateGetConnectionString(val_params, val_conn.registry, val_conn.resolved)
LacksColumn == val_type \in ColumnProfileTypes \cup ColumnQueryTypes /\ val_column = ""

\* the validator answered with a failed TestResult that carries a diagnostic
FailedWithDiagnostic ==
    /\ valRet # <<>>
    /\ ~valRet[1].raised /\ ~valRet[1].success /\ valRet[1].error # ""

\* C9 as stated: for every registered validator a missing required input -
\* profile, connection or column - produces a TestResult with success=false
\* and a diagnostic instead of a raised exception.
C9_MissingInputGivesFailedResult ==
    (val_stage \in {"raised", "executed"}
        /\ (LacksProfile \/ LacksConnection \/ LacksColumn))
      => FailedWithDiagnostic

\* C9 as the code has it: an absent profile or connection makes execute return
\* a TestResult with success=false and a diagnostic; a missing column makes
\* the constructor of every column-level validator raise, so that no
\* TestResult is produced, and nothing else makes a constructor raise.
C9_MissingColumnRaises ==
    /\ (val_stage = "executed" /\ (LacksProfile \/ LacksConnection))
          => FailedWithDiagnostic
    /\ (val_stage # "new" /\ LacksColumn)
          => val_stage = "raised" /\ valRet # <<>> /\ valRet[1].raised
    /\ val_stage = "raised" => LacksColumn

\* a column-level validator was constructed without a column
C9_Witness ==
    val_stage = "raised" /\ val_type = "column_values_not_null" /\ LacksProfile


(***************************************************************************)
(* C11: one row of one column                                              *)
(***************************************************************************)
SingleCell ==
    /\ result.t = "list"
    /\ Len(result.rows) = 1
    /\ Len(result.rows[1]) = 1

\* C11: one row of one column reports the scalar as result_value; a numeric
\* (int or float) or boolean scalar passes exactly when it is truthy, so
\* (0,) and (0.0,) fail; a scalar of any other type passes.
C11_ScalarTruthiness ==
    (parsed # <<>> /\ SingleCell) =>
        LET value == result.rows[1][1] IN
        /\ "result_value" \in parsed[1].metrics.keys
        /\ parsed[1].metrics.result_value = value
        /\ value.k \in {"int", "float", "bool"} => (parsed[1].passed <=> Truthy(value))
        /\ value.k \notin {"int", "float", "bool"} => parsed[1].passed

(***************************************************************************)
(* C12: identifiers that do not parse                                      *)
(***************************************************************************)
NoPlatform(urn) == ~urn.marked \/ urn.platform = ""
Malformed(urn) == NoPlatform(urn) \/ urn.name = <<>>
FullName == <<"sales", "public", "orders">>

\* C12 as stated: an identifier without a platform or without a name
\* component is answered with a parse error that differs from "nothing
\* available", and no engine is created for it.
C12_ParseErrorDistinct ==
    (connRet # <<>> /\ Malformed(connRet[1].urn)) =>
        /\ connRet[1].value.from = "parse_error"
        /\ connRet[1].value # NoConn

\* C12 amended: an identifier without a platform is answered with None, the
\* answer that also stands for "nothing available", except by get_engine
\* with a connection_string argument, which creates an engine from the
\* argument whatever the identifier; without a name component
\* get_native_connection answers None while get_connection_string resolves
\* by the platform alone.
C12_MalformedGivesNone ==
    connRet # <<>> =>
        LET r == connRet[1]
            urn == r.urn
            map == LoadIngestionSources(ingestion_source_cache, graph, catalog).map
        IN /\ (NoPlatform(urn) /\ r.value.from # "argument") => r.value = NoConn
           /\ (NoPlatform(urn) /\ r.value.from = "argument") => r.op = "get_engine"
           /\ (r.op = "get_native_connection" /\ urn.name = <<>>) => r.value = NoConn
           /\ (r.op = "get_connection_string" /\ ~NoPlatform(urn)) =>
                  r.value = GetConnectionString(Urn(urn.platform, FullName),
                                                connector_configs, map, environ)

\* C12 witness: get_connection_string answered an identifier that has no
\* name component with a connection string
C12_Witness ==
    /\ connRet # <<>>
    /\ connRet[1].op = "get_connection_string"
    /\ connRet[1].urn.name = <<>>
    /\ ~NoPlatform(connRet[1].urn)
    /\ connRet[1].value # NoConn

(***************************************************************************)
(* C13: the assertion URN                                                  *)
(***************************************************************************)
\* the tests that completed so far, in order; the k-th owns records 2k-1, 2k
CompletedTests == SelectSeq(log, Completed)
SameUrnInputs(a, b) ==
    /\ test_configs[a].type = test_configs[b].type
    /\ test_configs[a].params = test_configs[b].params
    /\ test_configs[a].column = test_configs[b].column

\* C13: the assertion URN is a function of (test type, params, dataset URN,
\* column) only: two tests that agree on them get the same URN whatever
\* their names and whenever they ran in the evaluation, and the definition
\* record and the result record of one execution carry the same URN.
C13_UrnDeterministic ==
    Len(mcps) = 2 * Len(CompletedTests) =>
        \A k \in 1..Len(CompletedTests) :
            /\ mcps[2 * k - 1].entityUrn = mcps[2 * k].entityUrn
            /\ \A j \in 1..Len(CompletedTests) :
                  SameUrnInputs(CompletedTests[k].test, CompletedTests[j].test) =>
                     mcps[2 * k].entityUrn = mcps[2 * j].entityUrn

\* C13 witness: two tests with different names that agree on type, params
\* and column have both completed
C13_Witness ==
    /\ pc = "done"
    /\ Len(mcps) = 2 * Len(CompletedTests)
    /\ \E k, j \in 1..Len(CompletedTests) :
          /\ k < j
          /\ CompletedTests[k].test # CompletedTests[j].test
          /\ SameUrnInputs(CompletedTests[k].test, CompletedTests[j].test)

(***************************************************************************)
(* C14: the selection over repeated calls                                  *)
(***************************************************************************)
\* C14: for a fixed candidate list and dataset key, two successive calls of
\* _select_best_source return the same candidate, whatever the secret store
\* answered during either call.
C14_SameCandidateEveryCall ==
    [][ (/\ selRet # <<>> /\ selRet' # <<>>
         /\ selRet[1].op = "select" /\ selRet'[1].op = "select")
        => selRet'[1].at = selRet[1].at ]_vars

(***************************************************************************)
(* C15: failing results explain themselves                                 *)
(***************************************************************************)
\* execute of the validator returned a TestResult
ExecuteReturned == val_stage = "executed" /\ valRet # <<>> /\ ~valRet[1].raised

BetweenTypes ==
    {"table_row_count", "table_column_count_between",
     "column_min_between", "column_max_between", "column_mean_between",
     "column_median_between", "column_stddev_between",
     "column_distinct_count_between", "column_unique_proportion_between"}

\* the field profile of the column under validation
ValField ==
    val_profile[1].fieldProfiles[FindField(val_profile[1].fieldProfiles, val_column, 1)]

\* lower <= actual, given as a product where the actual value is a proportion
AtLeast(bound) ==
    CASE val_type = "table_row_count" -> bound <= val_profile[1].rowCount[1]
      [] val_type = "table_column_count_between" -> bound <= val_profile[1].columnCount[1]
      [] val_type = "column_unique_proportion_between" ->
            IF val_profile[1].rowCount[1] > 0
            THEN bound * val_profile[1].rowCount[1] <= ValField.uniqueCount[1]
            ELSE bound <= 0
      [] OTHER -> bound <= ValField[StatKey(val_type)][1]

AtMost(bound) ==
    CASE val_type = "table_row_count" -> val_profile[1].rowCount[1] <= bound
      [] val_type = "table_column_count_between" -> val_profile[1].columnCount[1] <= bound
      [] val_type = "column_unique_proportion_between" ->
            IF val_profile[1].rowCount[1] > 0
            THEN ValField.uniqueCount[1] <= bound * val_profile[1].rowCount[1]
            ELSE 0 <= bound
      [] OTHER -> ValField[StatKey(val_type)][1] <= bound

\* the validator measured a value and compared it with its bounds
Measured == ExecuteReturned /\ valRet[1].error = "" /\ val_type \in BetweenTypes

\* C16: a between-style profile validator succeeds exactly when
\* lower <= actual <= upper, both bounds inclusive; an absent bound puts no
\* constraint on the value, whatever the value is.
C16_InclusiveBounds ==
    Measured =>
        (valRet[1].success <=>
            /\ val_params.min = <<>> \/ AtLeast(val_params.min[1])
            /\ val_params.max = <<>> \/ AtMost(val_params.max[1]))

(***************************************************************************)
(* C17: the unique proportion of an empty table                            *)
(***************************************************************************)
\* column_unique_proportion_between ran on a profile with rowCount = 0 that
\* holds a unique count for the column
ZeroRows ==
    /\ val_stage = "executed" /\ valRet # <<>>
    /\ val_type = "column_unique_proportion_between"
    /\ val_profile # <<>> /\ val_profile[1].rowCount = <<0>>
    /\ FindField(val_profile[1].fieldProfiles, val_column, 1) # 0
    /\ ValField.uniqueCount # <<>>

\* C17 as stated: on a profile with rowCount = 0 the validator never raises
\* and returns success=true with the proportion 0.0.
C17_ZeroRowsSucceed ==
    ZeroRows =>
        /\ ~valRet[1].raised
        /\ valRet[1].success
        /\ valRet[1].actual_value = << [num |-> 0, den |-> 1] >>

\* C17 amended: with bounds that are numbers, the validator does not raise on
\* rowCount = 0, reports the proportion 0.0, and succeeds exactly when 0.0
\* lies within the configured bounds (min defaults to 0.0, max to 1.0).
C17_ZeroRowsProportionZero ==
    (ZeroRows /\ val_params.numeric) =>
        /\ ~valRet[1].raised
        /\ valRet[1].actual_value = << [num |-> 0, den |-> 1] >>
        /\ valRet[1].success <=>
              /\ val_params.min = <<>> \/ val_params.min[1] <= 0
              /\ val_params.max = <<>> \/ 0 <= val_params.max[1]

\* C17 witness: the validator ran on rowCount = 0 with a unique count above
\* zero and succeeded
C17_Witness ==
    /\ ZeroRows /\ val_params.numeric
    /\ ValField.uniqueCount[1] > 0
    /\ valRet[1].success

(***************************************************************************)
(* C18: the list execute_tests_for_dataset returns                         *)
(***************************************************************************)
\* the configured tests whose pattern matches the dataset, by place
MatchingPlaces ==
    { i \in 1..Len(test_configs) :
        Fnmatch(UrnText(target_urn), test_configs[i].dataset_pattern) }

\* the number of records the first k tests run have contributed: two for
\* each test that was executed to its end, none for any other
RECURSIVE RecordsUpTo(_)
RecordsUpTo(k) ==
    IF k = 0 THEN 0
    ELSE RecordsUpTo(k - 1) + (IF Completed(log[k]) THEN 2 ELSE 0)

\* C18: the list returned is made, in configuration order, of the tests whose
\* pattern matches the dataset URN: a definition record followed by a result
\* record on the same assertion URN for each test of a registered type that
\* was executed, no record for a test of an unknown type, which neither
\* raises nor stops the tests after it; a test whose pattern does not match
\* contributes nothing.
C18_ReturnedList ==
    pc = "done" =>
        /\ { matching_tests[k] : k \in 1..Len(matching_tests) } = MatchingPlaces
        /\ \A k \in 1..(Len(matching_tests) - 1) : matching_tests[k] < matching_tests[k + 1]
        /\ Len(log) = Len(matching_tests)
        /\ Len(mcps) = RecordsUpTo(Len(log))
        /\ \A k \in 1..Len(log) :
              LET test_config == test_configs[matching_tests[k]]
                  at == RecordsUpTo(k)
              IN /\ test_config.type \notin TEST_REGISTRY =>
                        log[k].outcome = "unknown" /\ RecordsUpTo(k) = RecordsUpTo(k - 1)
                 /\ Completed(log[k]) =>
                        /\ test_config.type \in TEST_REGISTRY
                        /\ mcps[at - 1].aspectName = "assertionInfo"
                        /\ mcps[at - 1].test_name = test_config.name
                        /\ mcps[at].aspectName = "assertionRunEvent"
                        /\ mcps[at].result # <<>>
                        /\ mcps[at].entityUrn = mcps[at - 1].entityUrn
                        /\ mcps[at].entityUrn.nativeType = test_config.type

\* C18 witness: the call returned after a test of an unknown type was
\* skipped, a test after it completed, and some configured test did not match
C18_Witness ==
    /\ pc = "done"
    /\ Len(matching_tests) < Len(test_configs)
    /\ \E k \in 1..(Len(log) - 1) :
          log[k].outcome = "unknown" /\ Completed(log[k + 1])

(***************************************************************************)
(* C19: an evaluation without a profile                                    *)
(***************************************************************************)
\* DataHub holds no profile for the dataset, or the request for it raises
ProfileMissing == profile_source.raises \/ profile_source.profile = <<>>

\* a profile DataHub could have held instead
PresentProfile == << Profile(<<1>>, <<2>>, << FieldProfile("c", <<0>>, <<1>>, <<1>>) >>) >>

\* what the registry resolves for the dataset of the evaluation
ResolvedForTarget ==
    GetConnectionString(target_urn, connector_configs,
                        LoadIngestionSources(ingestion_source_cache, graph, catalog).map,
                        environ)

FailedEmissions ==
    LET Failed(e) == ~e.ok
        failed == SelectSeq(emitted, Failed) IN
    [k \in 1..Len(failed) |-> failed[k].mcp]

\* the records named by the emission errors logged, in order
LoggedEmissions ==
    LET OfEmit(e) == e.what = "Failed to emit assertion"
        logged == SelectSeq(act_errors, OfEmit) IN
    [k \in 1..Len(logged) |-> logged[k].mcp[1]]

\* C20: act hands every assembled record to the sink exactly once and in
\* list order; a failed emission is logged, is not retried, does not keep
\* the later records from being emitted and does not leave act.
C20_EmitEachOnceInOrder ==
    /\ act_pc # "raised"
    /\ Len(emitted) <= Len(assertion_mcps)
    /\ \A k \in 1..Len(emitted) : emitted[k].mcp = assertion_mcps[k]
    /\ act_pc = "emit" => Len(emitted) = act_idx - 1
    /\ act_pc = "done" => Len(emitted) = Len(assertion_mcps)
    /\ (act_pc \in {"emit", "done"} /\ ActDatasetUrn(act_enabled, act_event) # ""
          /\ ~act_executor.raises) => assertion_mcps = act_executor.mcps
    /\ LoggedEmissions = FailedEmissions

\* C20 witness: act returned after an emission failed and a later one went
\* through
C20_Witness ==
    /\ act_pc = "done"
    /\ Len(emitted) >= 2
    /\ ~emitted[1].ok /\ emitted[2].ok
    /\ LoggedEmissions = << assertion_mcps[1] >>

(***************************************************************************)
(* C21: close_all                                                          *)
(***************************************************************************)
Closing == {"close_all", "__exit__"}
IsCached(id) == \E p \in DOMAIN engines : engines[p].id = id

CurrentMaps ==
    IF ingestion_source_cache # <<>> THEN { ingestion_source_cache[1] }
    ELSE IF graph = "none" THEN { EmptyMap }
    ELSE { EmptyMap, SourceMap(catalog) }

\* what get_connection_string can resolve now for a dataset of platform p
CurrentlyResolved(p) ==
    { GetConnectionString(Urn(p, FullName), connector_configs, map, environ) :
        map \in CurrentMaps }

JustRegistered == connRet # <<>> /\ connRet[1].op = "register_connector"

\* C25 as stated: register_connector drops the cached engine of its platform,
\* and in every state a cached engine was built from the connection string
\* get_connection_string resolves now for its platform.
C25_NeverStale ==
    /\ JustRegistered => engines[connRet[1].urn.platform] = NoEngine
    /\ \A p \in DOMAIN engines :
          engines[p] # NoEngine => engines[p].from \in CurrentlyResolved(p)

\* C25 amended: register_connector(p, s) stores s and drops the cached engine
\* of p, and whenever a platform has an explicit connection string, the
\* engine cached for it, hence the one get_engine returns, was built from it.
C25_ExplicitNeverStale ==
    /\ JustRegistered =>
          /\ engines[connRet[1].urn.platform] = NoEngine
          /\ connector_configs[connRet[1].urn.platform] = connRet[1].connection_string
    /\ \A p \in DOMAIN engines :
          (engines[p] # NoEngine /\ connector_configs[p] \in ConnectionStrings)
             => engines[p].from = ExplicitConn(p, connector_configs[p])
    /\ (connRet # <<>> /\ connRet[1].op = "get_engine" /\ connRet[1].value # NoEngine
           /\ connector_configs[connRet[1].urn.platform] \in ConnectionStrings)
          => connRet[1].value.from
                = ExplicitConn(connRet[1].urn.platform,
                               connector_configs[connRet[1].urn.platform])

\* C25 witness: get_engine built a second engine, from the registered string,
\* after register_connector dropped the first one, which was never disposed
C25_Witness ==
    /\ connRet # <<>> /\ connRet[1].op = "get_engine" /\ connRet[1].made
    /\ connRet[1].value = Engine(2, ExplicitConn("snowflake", "registered"))
    /\ engines["snowflake"] = connRet[1].value
    /\ engines["oracle"] = NoEngine /\ connector_configs["oracle"] = "absent"
    /\ disposed[1] = 0

(***************************************************************************)
(* C26: the engine cache                                                   *)
(***************************************************************************)
\* C26: get_engine without a connection_string argument returns the engine
\* cached for the platform without building another, whatever the dataset;
\* with nothing cached it builds one engine, caches it under the platform
\* and returns it, or caches nothing and returns None; an identifier without
\* a platform gives None and touches nothing.
C26_EngineBuiltOnce ==
    [][ (connRet' # <<>> /\ connRet'[1].op = "get_engine")
          => LET p == ExtractPlatformFromUrn(connRet'[1].urn)
                 value == connRet'[1].value
                 untouched == engines' = engines /\ made' = made
             IN IF p = "" THEN value = NoEngine /\ untouched
                ELSE IF engines[p] # NoEngine \/ connRet' = connRet
                THEN value = engines'[p] /\ untouched
                ELSE \/ value = NoEngine /\ untouched
                     \/ /\ made' = made + 1 /\ value.id = made + 1
                        /\ connRet'[1].made
                        /\ engines' = [engines EXCEPT ![p] = value] ]_vars

\* C26 witness: get_engine for a second dataset of the platform returned the
\* cached engine and built none
C26_Witness ==
    /\ connRet # <<>> /\ connRet[1].op = "get_engine"
    /\ connRet[1].urn = Urn("snowflake", <<"finance", "public", "orders">>)
    /\ ~connRet[1].made
    /\ connRet[1].value # NoEngine
    /\ connRet[1].value = engines["snowflake"]

(***************************************************************************)
(* C28, C30: the cache of ingestion sources                                *)
(***************************************************************************)
\* the places in the catalog of the sources of platform p that have a type,
\* a recipe that parses and a source config
Usable(p) ==
    { i \in 1..Len(catalog) :
        /\ catalog[i].type # "" /\ LowerName(catalog[i].type) = p
        /\ catalog[i].recipe = "ok" }

\* list holds the usable sources of platform p, each once, in catalog order
KeepsCatalogOrder(list, p) ==
    /\ { list[k].name : k \in 1..Len(list) } = Usable(p)
    /\ \A k \in 1..Len(list) : list[k].config = catalog[list[k].name].config
    /\ \A k \in 1..(Len(list) - 1) : list[k].name < list[k + 1].name

CatalogCached == ingestion_source_cache # <<>>

\* the last call was one that works with the map of ingestion sources
UsedSources == connRet # <<>> /\ connRet[1].loaded

\* what the last call has to return when it worked with map
ReturnsFor(map) ==
    CASE connRet[1].op = "get_connection_string" ->
            connRet[1].value
              = GetConnectionString(connRet[1].urn, connector_configs, map, environ)
      [] connRet[1].op = "get_native_connection" ->
            connRet[1].value = GetNativeConnection(connRet[1].urn, map, TRUE, "answers")
      [] OTHER -> TRUE

\* C28: once the catalog was fetched, the cached map is neither replaced nor
\* fetched again; every later call works with it, and its per-platform
\* lists hold the usable sources of the catalog in catalog order.
C28_FetchedOnce ==
    /\ [](CatalogCached =>
            /\ \A p \in SourcePlatforms :
                  KeepsCatalogOrder(ingestion_source_cache[1][p], p)
            /\ UsedSources => ReturnsFor(ingestion_source_cache[1]))
    /\ [][CatalogCached => /\ ingestion_source_cache' = ingestion_source_cache
                     /\ queries' = queries]_vars

\* C28 witness: a call after the fetch resolved the first of two cached
\* sources of the platform, one catalog query having been made
C28_Witness ==
    /\ CatalogCached /\ queries.count = 1
    /\ Len(ingestion_source_cache[1]["snowflake"]) = 2
    /\ connRet # <<>> /\ connRet[1].op = "get_connection_string"
    /\ connRet[1].value.from = "catalog"
    /\ made = 1

\* a step of a call that came to _load_ingestion_sources with nothing cached
FetchStep ==
    /\ ~CatalogCached /\ graph # "none"
    /\ connRet' # <<>> /\ connRet'[1].loaded
    /\ ~(UNCHANGED vars)

\* C30: a failed catalog fetch (no client, the query raising or returning
\* None) leaves the cache unset and the call works with an empty map, so
\* the next call queries again; a fetch that succeeds is cached, with zero
\* usable sources as an empty map, and is not repeated.
C30_FailureNotCached ==
    /\ [](/\ graph = "none" => ~CatalogCached /\ queries.count = 0
          /\ queries.last \in {"down", "null"} => ~CatalogCached
          /\ queries.last = "up" => ingestion_source_cache = <<SourceMap(catalog)>>
          /\ (UsedSources /\ ~CatalogCached) => ReturnsFor(EmptyMap))
    /\ [][FetchStep => /\ queries'.count = queries.count + 1
                       /\ CatalogCached' <=> queries'.last = "up"]_vars

\* C30 witness: the second query succeeded after a failed one and cached an
\* empty map
C30_Witness ==
    /\ queries = [count |-> 2, last |-> "up"]
    /\ ingestion_source_cache = <<EmptyMap>>
    /\ UsedSources

(***************************************************************************)
(* C27: secret resolution per call                                         *)
(***************************************************************************)
\* C27: one call of get_native_connection or get_connection_string passes
\* the configuration of each source through _resolve_secrets at most once.
C27_ResolvedAtMostOnce ==
    (connRet # <<>> /\ connRet[1].op \in {"get_native_connection", "get_connection_string"})
       => \A i \in DOMAIN connRet[1].resolved : connRet[1].resolved[i] <= 1
(***************************************************************************)
(* Claims about one statement run                                          *)
(***************************************************************************)
CallReturned(path) == call_pc = "done" /\ call_path = path /\ callRet # <<>>

\* C22: execute_query materializes and evaluates only the first row_limit
\* rows of the result: no more than row_limit rows are brought into memory,
\* and the reported row_count never exceeds row_limit.
C22_OnlyRowLimitRows ==
    CallReturned("execute_query") =>
        /\ fetched_rows <= call_limit
        /\ callRet[1].metrics.row_count <= call_limit

\* C23: a statement that runs longer than the timeout is ended and reported
\* as one failure: it is never running past timeout_sec, and a call that
\* has returned did so within timeout_sec or with a failure.
C23_EndedAtTimeout ==
    /\ call_pc = "running" => elapsed <= call_timeout
    /\ (call_pc = "done" /\ callRet # <<>> /\ elapsed > call_timeout) =>
           (~callRet[1].passed /\ callRet[1].error # None)

\* C24: every native connection the operation obtained is closed when the
\* operation has returned, whether the statement succeeded or raised.
C24_NativeClosed ==
    (call_pc = "done" /\ call_path \in NativePaths) => open_native = 0


(***************************************************************************)
(* Claims about two threads on one registry                                *)
(***************************************************************************)
Quiet == \A t \in Threads : race_pc[t].pc = "idle"

\* C29: under every interleaving the caches stay consistent: threads that
\* only call get_engine end with a single engine created, no operation
\* fails because of another thread, and when only get_engine and close_all
\* ran every engine created is cached or disposed once the threads are done.
C29_CachesConsistent ==
    /\ (Quiet /\ race_ops \subseteq {"get_engine"}) => race_made <= 1
    /\ race_raised = {}
    /\ (Quiet /\ race_ops \subseteq {"get_engine", "close_all"}) =>
           \A e \in 1..race_made :
               e = Cached(race_entries) \/ e \in race_disposed

====
